---- MODULE Spec2Model ----
(***************************************************************************)
(* AgriBot: intent classification and response generation (aiService),     *)
(* the rate governor (rateLimiter), the notification scheduler (cronJobs)  *)
(* and the authentication paths (auth middleware, POST /auth/telegram).    *)
(***************************************************************************)
EXTENDS Integers, Sequences, FiniteSets, Bags, TLC

\* ------------------------------------------------------------------ bounds
\* Number of words an inbound text is made of, at most.
MaxWords == 2
\* Consumes made on one key beyond its limiter's capacity, at most.
MaxOver == 1
\* Steps of time in one behaviour of the rate governor, at most.
MaxTicks == 2
\* Requests one administrator makes within one window, at most.
MaxAdminRequests == 1
\* How long before the end of a window "shortly before" is, in milliseconds.
NearExpiryMs == 400
\* Runs of scheduled jobs that one behaviour of the scheduler starts, at most.
MaxRuns == 2
\* Alerts the weather or the market service reports for one account, at most.
MaxAlerts == 2
\* Conversation documents of one instant beyond none and beyond KeepPerUser
\* that a stored collection is examined with, at most.
MaxExtra == 1
\* Points one key is charged while bucket independence is examined, at most.
MaxCharges == 1
\* Inbound messages in one behaviour of the bot, at most.
MaxMessages == 2
\* Days that pass in one behaviour of the authentication paths, at most.
MaxDays == 1
\* The message, command and report counters a trust score is computed from,
\* at most.
MaxCount == 6

\* The identities that call the rate governor, and the addresses (req.ip) HTTP
\* requests come from; an address is never equal to a chat id.
RlUsers == {1}
ClientIps == {1001}

VARIABLES
  aiText,     \* the text handed to AIService.processMessage
  aiResult,   \* << >> before the call, then << what processMessage returned >>
  rlStore,    \* per limiter, its in-memory table: key -> [value, expiresAt]
  rlNow,      \* Date.now(), in milliseconds
  rlTicks,    \* how many steps of time have been taken
  rlLast,     \* what the last call into the rate governor reported
  userScores, \* AdaptiveRateLimiter.userScores: identity -> trust score
  adaptiveLast, \* << >>, then << what the last adaptive-limiter request got >>
  rlRequests, \* per client address, the HTTP requests it made since its
              \* general-API record was opened (an observer, not program state)
  users,      \* the User collection: telegramId -> document
  clock,      \* Date.now(), in days
  jobs,       \* CronJobs.jobs: name -> "running" | "stopped" (the task's state)
  booted,     \* whether AgriBot.initCronJobs has run
  runs,       \* the runs of job handlers started so far, in firing order
  authLast,   \* << >>, then << what the last authentication request did >>
  profileLast,   \* << >>, then << what the last PUT /profile request did >>
  deletion,      \* << >>, or << the DELETE /account request in progress or done >>
  conversations, \* the Conversation collection: a bag of documents
  handlers,      \* the calls of BotHandler.handleMessage, in arrival order
  agData,        \* the AgriculturalData collection: the weather snapshots
  channel        \* the calls of bot.sendMessage by job handlers that have not
                 \* settled yet

aiVars == <<aiText, aiResult>>
adVars == <<userScores, adaptiveLast>>
rlVars == <<rlStore, rlNow, rlTicks, rlLast, rlRequests, adVars>>
dirVars == <<users, clock>>
cronVars == <<jobs, booted, runs>>
userApiVars == <<profileLast, deletion>>
chatVars == <<conversations, handlers>>
appVars == <<userApiVars, chatVars, agData, channel>>
vars == <<aiVars, rlVars, dirVars, cronVars, authLast, appVars>>

\* ------------------------------------------------------------ text helpers
UpperChars == <<"A","B","C","D","E","F","G","H","I","J","K","L","M",
                "N","O","P","Q","R","S","T","U","V","W","X","Y","Z">>
LowerChars == <<"a","b","c","d","e","f","g","h","i","j","k","l","m",
                "n","o","p","q","r","s","t","u","v","w","x","y","z">>

\* String.prototype.toLowerCase, one character.
LowerChar(c) ==
  IF \E i \in 1..Len(UpperChars) : UpperChars[i] = c
    THEN LowerChars[CHOOSE i \in 1..Len(UpperChars) : UpperChars[i] = c]
    ELSE c

\* String.prototype.toLowerCase.
toLowerCase(s) == [i \in 1..Len(s) |-> LowerChar(s[i])]

\* String.prototype.includes: needle occurs in hay as a contiguous run.
includes(hay, needle) ==
  \E i \in 0..(Len(hay) - Len(needle)) :
    \A j \in 1..Len(needle) : hay[i + j] = needle[j]

\* ------------------------------------------------------- intent classifier
intents ==
  << [intent |-> "greeting", keywords |-> << <<"h","e","l","l","o">>, <<"h","i">>, <<"h","e","y">>, <<"g","o","o","d"," ","m","o","r","n","i","n","g">>, <<"g","o","o","d"," ","e","v","e","n","i","n","g">> >>],
     [intent |-> "weather", keywords |-> << <<"w","e","a","t","h","e","r">>, <<"t","e","m","p","e","r","a","t","u","r","e">>, <<"r","a","i","n">>, <<"s","u","n","n","y">>, <<"c","l","o","u","d","y">>, <<"f","o","r","e","c","a","s","t">> >>],
     [intent |-> "crops", keywords |-> << <<"c","r","o","p">>, <<"p","l","a","n","t">>, <<"g","r","o","w">>, <<"s","e","e","d">>, <<"h","a","r","v","e","s","t">>, <<"f","a","r","m","i","n","g">> >>],
     [intent |-> "market", keywords |-> << <<"p","r","i","c","e">>, <<"m","a","r","k","e","t">>, <<"s","e","l","l">>, <<"b","u","y">>, <<"c","o","s","t">>, <<"r","a","t","e">> >>],
     [intent |-> "pest", keywords |-> << <<"p","e","s","t">>, <<"i","n","s","e","c","t">>, <<"b","u","g">>, <<"d","i","s","e","a","s","e">>, <<"i","n","f","e","c","t","i","o","n">>, <<"t","r","e","a","t","m","e","n","t">> >>],
     [intent |-> "irrigation", keywords |-> << <<"w","a","t","e","r">>, <<"i","r","r","i","g","a","t","i","o","n">>, <<"w","a","t","e","r","i","n","g">>, <<"d","r","o","u","g","h","t">>, <<"m","o","i","s","t","u","r","e">> >>],
     [intent |-> "fertilizer", keywords |-> << <<"f","e","r","t","i","l","i","z","e","r">>, <<"n","u","t","r","i","e","n","t">>, <<"m","a","n","u","r","e">>, <<"c","o","m","p","o","s","t">>, <<"n","i","t","r","o","g","e","n">> >>],
     [intent |-> "news", keywords |-> << <<"n","e","w","s">>, <<"l","a","t","e","s","t">>, <<"h","e","a","d","l","i","n","e","s">>, <<"u","p","d","a","t","e","s">>, <<"a","r","t","i","c","l","e">> >>],
     [intent |-> "help", keywords |-> << <<"h","e","l","p">>, <<"a","s","s","i","s","t">>, <<"s","u","p","p","o","r","t">>, <<"g","u","i","d","e">>, <<"h","o","w"," ","t","o">> >>] >>

\* The words inbound texts are made of: at least one trigger of every intent,
\* words that hold a trigger inside another word, upper-case letters, words
\* that trigger nothing, a crop of the crop table, a crop that is not in it,
\* and a place.
Words ==
  { <<"H","i">>,
    <<"t","h","i","s">>,
    <<"W","E","A","T","H","E","R">>,
    <<"g","r","a","i","n">>,
    <<"P","l","a","n","t">>,
    <<"p","r","i","c","e">>,
    <<"p","e","s","t">>,
    <<"w","a","t","e","r">>,
    <<"m","a","n","u","r","e">>,
    <<"l","a","t","e","s","t">>,
    <<"h","o","w"," ","t","o">>,
    <<"s","o","i","l">>,
    <<"C","o","r","n">>,
    <<"t","o","m","a","t","o">>,
    <<"N","a","i","r","o","b","i">> }

\* keywords.some(keyword => lowercaseText.includes(keyword))
some(keywords, lowercaseText) ==
  \E k \in 1..Len(keywords) : includes(lowercaseText, keywords[k])

\* The for-of loop of detectIntent over Object.entries(this.intents).
RECURSIVE detectIntentFrom(_, _)
detectIntentFrom(lowercaseText, i) ==
  IF i > Len(intents) THEN "general"
  ELSE IF some(intents[i].keywords, lowercaseText) THEN intents[i].intent
  ELSE detectIntentFrom(lowercaseText, i + 1)

\* detectIntent without the toLowerCase call.
detectIntentCaseSensitive(text) == detectIntentFrom(text, 1)

detectIntent(text) == detectIntentFrom(toLowerCase(text), 1)

\* ------------------------------------------------------- entity extraction
crops == << <<"w","h","e","a","t">>, <<"c","o","r","n">>, <<"r","i","c","e">>,
            <<"t","o","m","a","t","o">>, <<"p","o","t","a","t","o">>,
            <<"s","o","y","b","e","a","n">> >>

locations == << <<"k","e","n","y","a">>, <<"n","a","i","r","o","b","i">>,
                <<"m","o","m","b","a","s","a">>, <<"k","i","s","u","m","u">>,
                <<"n","a","k","u","r","u">> >>

\* A scan of the vocabulary that stops at the first name that occurs.
RECURSIVE pushFirstMatch(_, _, _, _)
pushFirstMatch(vocabulary, type, lowercaseText, i) ==
  IF i > Len(vocabulary) THEN << >>
  ELSE IF includes(lowercaseText, vocabulary[i])
         THEN << [type |-> type, value |-> vocabulary[i]] >>
         ELSE pushFirstMatch(vocabulary, type, lowercaseText, i + 1)

\* vocabulary.forEach(v => { if (lowercaseText.includes(v)) entities.push(...) })
RECURSIVE pushMatches(_, _, _, _)
pushMatches(vocabulary, type, lowercaseText, i) ==
  IF i > Len(vocabulary) THEN << >>
  ELSE (IF includes(lowercaseText, vocabulary[i])
          THEN << [type |-> type, value |-> vocabulary[i]] >>
          ELSE << >>)
       \o pushMatches(vocabulary, type, lowercaseText, i + 1)

extractEntities(text) ==
  pushMatches(crops, "crop", toLowerCase(text), 1)
    \o pushMatches(locations, "location", toLowerCase(text), 1)

\* ------------------------------------------------------ response generator
\* Keys of this.cropDatabase.
cropDatabase == { <<"w","h","e","a","t">>, <<"c","o","r","n">>, <<"r","i","c","e">> }

\* Confidence scores are kept in tenths: 0.7 is 7.
\* What the collaborators can do in one call: the generative backend answers
\* with some text or throws; the news collaborator returns
\* articles, returns none, or throws; pick is the Math.random() choice.
BackendOutcomes == {"ok", "fail"}
NewsOutcomes == {"articles", "none", "fail"}
Picks == 1..3
Envs == [backend : BackendOutcomes, news : NewsOutcomes, pick : Picks]

\* response.text() of a backend call that did not throw.
backendText(env) == "<generated advice>"

greetings == << "Hello <firstName>! How can I help you with your farming today?",
                "Hi there! What agricultural question do you have for me?",
                "Welcome back! Ready to grow something amazing together?" >>

generateGreetingResponse(env) ==
  [text |-> greetings[env.pick], confidence |-> 9, keyboard |-> TRUE,
   backendCalled |-> FALSE, threw |-> FALSE]

generateWeatherResponse ==
  [text |-> "Let me get the latest weather information for you! Use /weather ...",
   confidence |-> 8, keyboard |-> TRUE, backendCalled |-> FALSE, threw |-> FALSE]

generateMarketResponse ==
  [text |-> "Let me help you with market price information! Use /market ...",
   confidence |-> 8, keyboard |-> TRUE, backendCalled |-> FALSE, threw |-> FALSE]

generateHelpResponse ==
  [text |-> "*AgriBot Help* I'm your intelligent agricultural assistant! ...",
   confidence |-> 10, keyboard |-> TRUE, backendCalled |-> FALSE, threw |-> FALSE]

\* undefined, as entities.find returns it.
NoEntity == [type |-> "undefined", value |-> << >>]

\* entities.find(e => e.type === 'crop'): the first crop entity, or undefined.
cropEntityOf(entities) ==
  IF \E i \in 1..Len(entities) : entities[i].type = "crop"
    THEN entities[CHOOSE i \in 1..Len(entities) :
                    /\ entities[i].type = "crop"
                    /\ \A j \in 1..(i - 1) : entities[j].type # "crop"]
    ELSE NoEntity

\* A guard that looks at the phrases only.
looksLikeQuestionByPhrase(originalText, cropEntity) ==
  \/ includes(originalText, <<"h","o","w"," ","t","o">>)
  \/ includes(originalText, <<"w","h","e","n"," ","t","o">>)
  \/ includes(originalText, <<"b","e","s","t">>)

\* The guard of the AI branch of generateCropResponse; originalText is not
\* lower-cased here.
looksLikeQuestion(originalText, cropEntity) ==
  \/ includes(originalText, <<"h","o","w"," ","t","o">>)
  \/ includes(originalText, <<"w","h","e","n"," ","t","o">>)
  \/ includes(originalText, <<"b","e","s","t">>)
  \/ cropEntity # NoEntity

\* The parts of the prompt of generateCropResponse that depend on the
\* message: the question and the specific crop.
cropPrompt(entities, originalText) ==
  [ question |-> originalText,
    specificCrop |-> IF cropEntityOf(entities) # NoEntity
                       THEN cropEntityOf(entities).value
                       ELSE <<"f","a","r","m","i","n","g">> ]

\* A fallback that always asks which crop is meant.
cropFallbackAskOnly(cropEntity, called) ==
  [text |-> "I'd be happy to help you with crop information! Could you specify which crop ...",
   confidence |-> 7, keyboard |-> TRUE, backendCalled |-> called,
   threw |-> FALSE]

\* The part of generateCropResponse after the AI branch: the facts of the
\* crop table, or the request to specify a crop.
cropFallback(cropEntity, called) ==
  IF cropEntity # NoEntity /\ cropEntity.value \in cropDatabase
    THEN [text |-> "*<Crop> Information* Planting Time: ... Harvest Time: ...",
          confidence |-> 9, keyboard |-> FALSE, backendCalled |-> called,
          threw |-> FALSE]
    ELSE [text |-> "I'd be happy to help you with crop information! Could you specify which crop ...",
          confidence |-> 7, keyboard |-> TRUE, backendCalled |-> called,
          threw |-> FALSE]

generateCropResponse(entities, originalText, env) ==
  LET cropEntity == cropEntityOf(entities) IN
  IF looksLikeQuestion(originalText, cropEntity)
    THEN IF env.backend # "fail"
           THEN [text |-> backendText(env), confidence |-> 9, keyboard |-> TRUE,
                 backendCalled |-> TRUE, threw |-> FALSE]
           ELSE cropFallback(cropEntity, TRUE)
    ELSE cropFallback(cropEntity, FALSE)

\* The catch branch of generatePestResponse.
pestFallback ==
  [text |-> "I can help you with pest management! For specific pest issues, please describe ...",
   confidence |-> 7, keyboard |-> FALSE, backendCalled |-> TRUE, threw |-> FALSE]

\* generatePestResponse without its try/catch: the backend error propagates.
generatePestResponseNoCatch(env) ==
  IF env.backend # "fail"
    THEN [text |-> backendText(env), confidence |-> 8, keyboard |-> FALSE,
          backendCalled |-> TRUE, threw |-> FALSE]
    ELSE [text |-> "", confidence |-> 0, keyboard |-> FALSE,
          backendCalled |-> TRUE, threw |-> TRUE]

generatePestResponse(env) ==
  IF env.backend # "fail"
    THEN [text |-> backendText(env), confidence |-> 8, keyboard |-> FALSE,
          backendCalled |-> TRUE, threw |-> FALSE]
    ELSE pestFallback

\* The catch branch of generateIrrigationResponse.
irrigationFallback ==
  [text |-> "I can help with irrigation planning! Consider drip irrigation ...",
   confidence |-> 7, keyboard |-> FALSE, backendCalled |-> TRUE, threw |-> FALSE]

generateIrrigationResponse(env) ==
  IF env.backend # "fail"
    THEN [text |-> backendText(env), confidence |-> 8, keyboard |-> FALSE,
          backendCalled |-> TRUE, threw |-> FALSE]
    ELSE irrigationFallback

\* The catch branch of generateFertilizerResponse.
fertilizerFallback ==
  [text |-> "For fertilizer advice, consider soil testing first. Organic compost ...",
   confidence |-> 7, keyboard |-> FALSE, backendCalled |-> TRUE, threw |-> FALSE]

generateFertilizerResponse(env) ==
  IF env.backend # "fail"
    THEN [text |-> backendText(env), confidence |-> 8, keyboard |-> FALSE,
          backendCalled |-> TRUE, threw |-> FALSE]
    ELSE fertilizerFallback

generateNewsResponse(env) ==
  CASE env.news = "articles" ->
         [text |-> "<formatted articles>", confidence |-> 9, keyboard |-> TRUE,
          backendCalled |-> TRUE, threw |-> FALSE]
    [] env.news = "none" ->
         [text |-> "I'm having trouble fetching the latest agricultural news right now. ...",
          confidence |-> 6, keyboard |-> TRUE, backendCalled |-> TRUE, threw |-> FALSE]
    [] env.news = "fail" ->
         [text |-> "Sorry, I can't fetch news right now, but I'm here to help ...",
          confidence |-> 5, keyboard |-> TRUE, backendCalled |-> TRUE, threw |-> FALSE]

responses == << "I'm not entirely sure about that specific question, but I'd be happy to help! ...",
                "That's an interesting agricultural question! While I'm still learning, ...",
                "I want to make sure I give you the best agricultural advice! ..." >>

generateGeneralResponse(env) ==
  IF env.backend # "fail"
    THEN [text |-> backendText(env), confidence |-> 8, keyboard |-> TRUE,
          backendCalled |-> TRUE, threw |-> FALSE]
    ELSE [text |-> responses[env.pick], confidence |-> 5, keyboard |-> TRUE,
          backendCalled |-> TRUE, threw |-> FALSE]

\* The switch of generateResponse.
generateResponse(intent, entities, originalText, env) ==
  CASE intent = "greeting" -> generateGreetingResponse(env)
    [] intent = "weather" -> generateWeatherResponse
    [] intent = "crops" -> generateCropResponse(entities, originalText, env)
    [] intent = "market" -> generateMarketResponse
    [] intent = "pest" -> generatePestResponse(env)
    [] intent = "irrigation" -> generateIrrigationResponse(env)
    [] intent = "fertilizer" -> generateFertilizerResponse(env)
    [] intent = "news" -> generateNewsResponse(env)
    [] intent = "help" -> generateHelpResponse
    [] OTHER -> generateGeneralResponse(env)

\* ----------------------------------------------------------- input texts
\* Words joined by single spaces.
RECURSIVE join(_)
join(ws) ==
  IF Len(ws) = 0 THEN << >>
  ELSE IF Len(ws) = 1 THEN ws[1]
  ELSE ws[1] \o <<" ">> \o join(Tail(ws))

WordSeqs == UNION { [1..n -> Words] : n \in 0..MaxWords }
\* "What's the best time to plant corn?"
PlantCornQuestion ==
  <<"W","h","a","t","'","s"," ","t","h","e"," ","b","e","s","t"," ",
    "t","i","m","e"," ","t","o"," ","p","l","a","n","t"," ",
    "c","o","r","n","?">>

Texts == { join(ws) : ws \in WordSeqs } \cup { PlantCornQuestion }

\* ------------------------------------------------- AIService.processMessage
\* The catch branch of processMessage.
processMessageError(intent, response, env) ==
  [text |-> "I apologize, but I'm having trouble processing your request right now. Please try again.",
   keyboard |-> FALSE, intent |-> "error", entities |-> << >>, confidence |-> 0,
   detected |-> intent, generated |-> response, env |-> env]

processMessage(text, env) ==
  LET intent == detectIntent(text)
      entities == extractEntities(text)
      response == generateResponse(intent, entities, text, env)
  IN  IF response.threw
        THEN processMessageError(intent, response, env)
        ELSE [text |-> response.text,
              keyboard |-> response.keyboard,
              intent |-> intent,
              entities |-> entities,
              confidence |-> response.confidence,
              detected |-> intent,
              generated |-> response,
              env |-> env]

ProcessMessage(env) ==
  /\ aiResult = << >>
  /\ aiResult' = << processMessage(aiText, env) >>
  /\ UNCHANGED <<aiText, rlVars, dirVars, cronVars, authLast, appVars>>

\* ===================================================== the rate governor
\* rateLimiter.js builds four RateLimiterMemory instances of the package
\* rate-limiter-flexible.  Each owns a private in-memory table from keys to
\* {value, expiresAt}; consume(key) adds one point to the key's record,
\* opening a record that lasts `duration` seconds when the key has none that
\* is still live, and rejects when the record then holds more than `points`.
\* The option keyGenerator is not an option of RateLimiterMemory: the key of
\* consume(key) and delete(key) is the argument as passed.
Limiters == {"api", "bot", "message", "premium"}

ApiPoints == 100
ApiWindowMinutes == 15
BotPoints == 30
BotDuration == 60
MessagePoints == 60
MessageDuration == 60
PremiumPoints == 200

\* The options `points` and `duration` (seconds) of each limiter.
points(l) ==
  CASE l = "api" -> ApiPoints
    [] l = "bot" -> BotPoints
    [] l = "message" -> MessagePoints
    [] l = "premium" -> PremiumPoints

duration(l) ==
  CASE l = "api" -> ApiWindowMinutes * 60
    [] l = "bot" -> BotDuration
    [] l = "message" -> MessageDuration
    [] l = "premium" -> 15 * 60

EmptyTable == [k \in {} |-> 0]

\* Keys are the strings the code passes: the bare identity, or the identity
\* behind one of the prefixes the code builds with a template literal.
Key(prefix, id) == <<prefix, id>>

\* The records of a table that are still live at time t.
live(table, t) ==
  [k \in {k \in DOMAIN table : table[k].expiresAt > t} |-> table[k]]

\* MemoryStorage.incrby(key, 1, duration) at time t, for limiter l: the table
\* afterwards and the RateLimiterRes.
incrby(table, l, key, t) ==
  IF key \in DOMAIN table /\ table[key].expiresAt > t
    THEN LET value == table[key].value + 1 IN
         [table |-> [table EXCEPT ![key].value = value],
          res |-> [msBeforeNext |-> table[key].expiresAt - t,
                   consumedPoints |-> value,
                   isFirstInDuration |-> FALSE]]
    ELSE LET rec == [value |-> 1, expiresAt |-> t + duration(l) * 1000] IN
         [table |-> [k \in DOMAIN table \cup {key} |->
                       IF k = key THEN rec ELSE table[k]],
          res |-> [msBeforeNext |-> duration(l) * 1000,
                   consumedPoints |-> 1,
                   isFirstInDuration |-> TRUE]]

\* RateLimiterMemory.consume: rejects when more than `points` are consumed.
rejects(l, res) == res.consumedPoints > points(l)

\* A storage whose delete drops every record.
deleteAll(table, key) == [k \in {} |-> table[k]]

\* MemoryStorage.delete(key).
delete(table, key) == [k \in DOMAIN table \ {key} |-> table[k]]

\* Math.round(x / 1000) for a non-negative integer x.
roundSeconds(ms) == (ms + 500) \div 1000

\* What one call of a check function reports.
outcome(op, userId, l, res) ==
  [op |-> op, userId |-> userId, type |-> l,
   allowed |-> ~rejects(l, res),
   remainingTime |-> IF rejects(l, res) THEN roundSeconds(res.msBeforeNext) ELSE 0,
   consumedPoints |-> res.consumedPoints,
   msBeforeNext |-> res.msBeforeNext,
   status |-> 0, charged |-> 1]

NoOutcome ==
  [op |-> "none", userId |-> 0, type |-> "none", allowed |-> TRUE,
   remainingTime |-> 0, consumedPoints |-> 0, msBeforeNext |-> 0,
   status |-> 0, charged |-> 0]

\* A key may be charged while its record holds fewer than points + MaxOver.
chargeable(l, key) ==
  LET table == live(rlStore[l], rlNow) IN
  key \in DOMAIN table => table[key].value < points(l) + MaxOver

\* One consume on limiter l, reported as operation op.
check(op, l, userId) ==
  /\ chargeable(l, Key("", userId))
  /\ LET r == incrby(rlStore[l], l, Key("", userId), rlNow) IN
     /\ rlStore' = [rlStore EXCEPT ![l] = r.table]
     /\ rlLast' = outcome(op, userId, l, r.res)
  /\ UNCHANGED <<rlNow, rlTicks, rlRequests, aiVars, dirVars, cronVars, authLast, adVars, appVars>>

\* checkBotRateLimit(userId)
CheckBotRateLimit(userId) == check("checkBotRateLimit", "bot", userId)

\* checkMessageRateLimit(userId)
CheckMessageRateLimit(userId) == check("checkMessageRateLimit", "message", userId)

\* checkPremiumRateLimit(userId)
CheckPremiumRateLimit(userId) == check("checkPremiumRateLimit", "premium", userId)

ResetTypes == {"all", "api", "bot", "message", "premium"}

\* The keys resetRateLimit(userId, type) deletes, per limiter.
resetKey(l, userId) ==
  CASE l = "api" -> Key("", userId)
    [] l = "bot" -> Key("bot_", userId)
    [] l = "message" -> Key("message_", userId)

\* The limiters resetRateLimit(userId, type) calls delete on.
resetTargets(type) ==
  { l \in {"api", "bot", "message"} : type = "all" \/ type = l }

\* resetRateLimit(userId, type)
ResetRateLimit(userId, type) ==
  /\ rlStore' = [l \in Limiters |->
                   IF l \in resetTargets(type)
                     THEN delete(rlStore[l], resetKey(l, userId))
                     ELSE rlStore[l]]
  /\ rlLast' = [NoOutcome EXCEPT !.op = "resetRateLimit", !.userId = userId,
                                 !.type = type]
  /\ UNCHANGED <<rlNow, rlTicks, rlRequests, aiVars, dirVars, cronVars, authLast, adVars, appVars>>

\* ------------------------------------------------------ the HTTP middleware
\* The routers mounted under /api.  user, agricultural and bot call
\* router.use(rateLimiter) before any authentication; admin calls
\* router.use(adminAuth) and then router.use(rateLimiter); auth adds no
\* limiter of its own (nor do the endpoints of the index router, which behave
\* as auth does here).
Routers == {"auth", "user", "agricultural", "bot", "admin"}

\* The rateLimiter middleware run for key on table: the table afterwards and
\* whether it called next().  An allowed consume resolves after the delay of
\* execEvenly, which changes no count.
rateLimiter(table, key, t) ==
  LET r == incrby(table, "api", key, t) IN
  [table |-> r.table, next |-> ~rejects("api", r.res), res |-> r.res]

\* One HTTP request from address ip to a route of router, carrying the token
\* of admin (0: no valid admin token).  app.use(rateLimiter) runs first with
\* req.user unset, so its key is req.ip; the router's own limiter runs next.
ApiRequest(ip, router, admin) ==
  /\ admin # 0 => router = "admin"
  /\ chargeable("api", Key("", ip))
  /\ admin # 0 => LET table == live(rlStore["api"], rlNow) IN
                  Key("", admin) \in DOMAIN table
                    => table[Key("", admin)].value < MaxAdminRequests
  /\ LET first == rateLimiter(rlStore["api"], Key("", ip), rlNow)
         secondKey == IF router = "admin" THEN Key("", admin) ELSE Key("", ip)
         hasSecond == /\ first.next
                      /\ router \in {"user", "agricultural", "bot", "admin"}
                      /\ router = "admin" => admin # 0
         second == IF hasSecond
                     THEN rateLimiter(first.table, secondKey, rlNow)
                     ELSE first
         status == IF ~first.next \/ ~second.next THEN 429
                   ELSE IF router = "admin" /\ admin = 0 THEN 401
                   ELSE 200
         before == live(rlStore["api"], rlNow)
         valueOf(table, k) == IF k \in DOMAIN table THEN table[k].value ELSE 0
     IN
     /\ rlStore' = [rlStore EXCEPT !["api"] = second.table]
     /\ rlRequests' = [rlRequests EXCEPT ![ip] =
                         IF Key("", ip) \in DOMAIN before THEN @ + 1 ELSE 1]
     /\ rlLast' = [op |-> "apiRequest", userId |-> ip, type |-> router,
                   allowed |-> status # 429,
                   remainingTime |-> IF status = 429
                                       THEN roundSeconds(second.res.msBeforeNext)
                                       ELSE 0,
                   consumedPoints |-> second.res.consumedPoints,
                   msBeforeNext |-> second.res.msBeforeNext,
                   status |-> status,
                   charged |-> valueOf(second.table, Key("", ip))
                                 - valueOf(before, Key("", ip))]
  /\ UNCHANGED <<rlNow, rlTicks, aiVars, dirVars, cronVars, authLast, adVars, appVars>>

\* ------------------------------------------------------ adaptive rate limiter
\* A trust score is kept as the fraction << numerator, denominator >>.
\* The thresholds of AdaptiveRateLimiter, in tenths.
trustedThreshold == 3
suspiciousThreshold == 7
blockThreshold == 1
BaseLimit == 100

\* The score used when the map has none: 0.5.
DefaultScore == <<1, 2>>

lessThanTenths(score, tenths) == 10 * score[1] < tenths * score[2]
moreThanTenths(score, tenths) == 10 * score[1] > tenths * score[2]

\* new Map()
NoScores == [u \in {} |-> DefaultScore]

\* The score calculateTrustScore computes:
\* max(0, 1 - (commandCount / m * 0.5 + reportCount / m * 2)), m = max(messageCount, 1).
trustScore(messageCount, commandCount, reportCount) ==
  LET m == IF messageCount > 1 THEN messageCount ELSE 1
      n == 2 * m - commandCount - 4 * reportCount
  IN  << IF n > 0 THEN n ELSE 0, 2 * m >>

\* this.userScores.get(userId) || 0.5: the default is also taken for a stored
\* score of 0, which is falsy.
scoreOrDefault(scores, userId) ==
  IF userId \in DOMAIN scores /\ scores[userId][1] # 0
    THEN scores[userId]
    ELSE DefaultScore

\* shouldBlock(userId)
shouldBlock(scores, userId) ==
  lessThanTenths(scoreOrDefault(scores, userId), blockThreshold)

\* getAdjustedLimit(userId, baseLimit)
getAdjustedLimit(scores, userId, baseLimit) ==
  LET s == scoreOrDefault(scores, userId) IN
  IF lessThanTenths(s, trustedThreshold) THEN (baseLimit * 5) \div 10
  ELSE IF moreThanTenths(s, suspiciousThreshold) THEN (baseLimit * 15) \div 10
  ELSE baseLimit

\* What the counters of an account can be.
Counts == 0..MaxCount

\* calculateTrustScore(userId, messageCount, commandCount, reportCount)
CalculateTrustScore(userId, messageCount, commandCount, reportCount) ==
  /\ userScores' = [u \in DOMAIN userScores \cup {userId} |->
                      IF u = userId
                        THEN trustScore(messageCount, commandCount, reportCount)
                        ELSE userScores[u]]
  /\ UNCHANGED <<adaptiveLast, rlStore, rlNow, rlTicks, rlLast, rlRequests,
                 aiVars, dirVars, cronVars, authLast, appVars>>

\* How many requests in a row, this one included, the identity has made under
\* the limit it is given now (an observer of the requests, not program state).
nth(last, userId, limit) ==
  IF last # << >> /\ last[1].userId = userId /\ last[1].limit = limit
    THEN last[1].nth + 1
    ELSE 1

\* The adaptiveRateLimiter middleware for a request of userId (0: req.user is
\* unset) from address ip.  Without an identity it is the rateLimiter
\* middleware; with one, a blocked identity is answered 429, and any other
\* consumes one point of a limiter created for this request alone, which a
\* fresh limiter never refuses.
AdaptiveRateLimiter(userId, ip) ==
  /\ IF userId = 0
       THEN /\ chargeable("api", Key("", ip))
            /\ LET r == rateLimiter(rlStore["api"], Key("", ip), rlNow) IN
               /\ rlStore' = [rlStore EXCEPT !["api"] = r.table]
               /\ adaptiveLast' =
                    << [userId |-> userId, blocked |-> FALSE, limit |-> points("api"),
                        status |-> IF r.next THEN 200 ELSE 429, nth |-> 0] >>
     ELSE IF shouldBlock(userScores, userId)
       THEN /\ adaptiveLast' =
                 << [userId |-> userId, blocked |-> TRUE, limit |-> 0,
                     status |-> 429, nth |-> 0] >>
            /\ UNCHANGED rlStore
     ELSE /\ adaptiveLast' =
               << [userId |-> userId, blocked |-> FALSE,
                   limit |-> getAdjustedLimit(userScores, userId, BaseLimit),
                   status |-> IF 1 > getAdjustedLimit(userScores, userId, BaseLimit)
                                THEN 429 ELSE 200,
                   nth |-> nth(adaptiveLast, userId,
                               getAdjustedLimit(userScores, userId, BaseLimit))] >>
          /\ UNCHANGED rlStore
  /\ UNCHANGED <<userScores, rlNow, rlTicks, rlLast, rlRequests,
                 aiVars, dirVars, cronVars, authLast, appVars>>

\* Time passes; the timer of each record that expires deletes it.
RlTick(d) ==
  /\ rlTicks < MaxTicks
  /\ rlTicks' = rlTicks + 1
  /\ rlNow' = rlNow + d
  /\ rlStore' = [l \in Limiters |-> live(rlStore[l], rlNow + d)]
  /\ UNCHANGED <<rlLast, rlRequests, aiVars, dirVars, cronVars, authLast, adVars, appVars>>

\* Steps of time that matter to limiter l: to shortly before the end of a
\* window, to its end, and a short while.
tickSteps(l) == { NearExpiryMs, duration(l) * 1000 - NearExpiryMs, duration(l) * 1000 }


\* ----------------------------------------------------------- user directory
\* The chat ids of the accounts.
UserIds == {1, 2}

\* What Telegram reports as << username, first_name, last_name >>.
NameSets == { <<"asha", "Asha", "N">>, <<"asha_farm", "Asha", "Njeri">> }

\* The day the behaviours of the scheduler and of the authentication paths
\* start on.
Today == 20

\* The windows of the weekly summary and of the engagement check, in days.
SummaryWindowDays == 14
IdleAfterDays == 3
IdleWithinDays == 7

\* new User({telegramId, username, firstName, lastName}) with the defaults of
\* the schema.
newUser(names, now) ==
  [ names |-> names,
    weather |-> TRUE, marketPrices |-> TRUE, tips |-> TRUE, alerts |-> TRUE,
    isBanned |-> FALSE,
    coordinates |-> FALSE, cropTypes |-> << >>,
    farmingType |-> "conventional", experience |-> "beginner",
    messageCount |-> 0,
    lastInteraction |-> now, lastActiveTime |-> now ]

\* userSchema.methods.updateLastInteraction
updateLastInteraction(doc, now) ==
  [doc EXCEPT !.lastInteraction = now, !.lastActiveTime = now]

\* The empty collection.
NoUsers == [u \in {} |-> 0]

\* The stored accounts the scheduler is examined with: a farmer who set a
\* location and a crop and wrote five days ago, one who switched every
\* notification off and has been away for twenty days, a banned one, and one
\* who gave neither location nor crop.
Farmer ==
  [newUser(<<"asha", "Asha", "N">>, Today - 5) EXCEPT
     !.coordinates = TRUE, !.cropTypes = <<"corn">>]
Profiles ==
  { Farmer,
    [Farmer EXCEPT !.weather = FALSE, !.marketPrices = FALSE, !.tips = FALSE,
                   !.alerts = FALSE, !.lastInteraction = Today - 20,
                   !.lastActiveTime = Today - 20],
    [Farmer EXCEPT !.isBanned = TRUE],
    [Farmer EXCEPT !.coordinates = FALSE, !.cropTypes = << >>] }

\* The values PUT /profile accepts.
validCrops == {"wheat", "corn", "rice", "soybeans", "cotton", "vegetables", "fruits", "other"}
validTypes == {"organic", "conventional", "hydroponic", "mixed"}
validLevels == {"beginner", "intermediate", "advanced", "expert"}

\* Array.prototype.filter
filter(seq, valid) == SelectSeq(seq, LAMBDA x : x \in valid)

\* The bodies of PUT /profile: each field is absent, << >>, or present, << v >>.
\* Of the fields the route reads, those the directory documents carry.
ProfileUpdates ==
  [ cropTypes : { << >>, << <<"rice">> >>, << <<"rice", "banana">> >>,
                  << <<"banana">> >> },
    farmingType : { << >>, <<"organic">>, <<"aquaponic">> },
    experience : { << >>, <<"expert">>, <<"guru">> },
    weather : { << >>, <<FALSE>> } ]

\* The assignments of the route to the loaded document.
applyProfile(doc, updates) ==
  LET withCrops == IF updates.cropTypes # << >>
                 THEN [doc EXCEPT !.cropTypes = filter(updates.cropTypes[1], validCrops)]
                 ELSE doc
      withType == IF updates.farmingType # << >> /\ updates.farmingType[1] \in validTypes
                THEN [withCrops EXCEPT !.farmingType = updates.farmingType[1]]
                ELSE withCrops
      withLevel == IF updates.experience # << >> /\ updates.experience[1] \in validLevels
                 THEN [withType EXCEPT !.experience = updates.experience[1]]
                 ELSE withType
  IN  IF updates.weather # << >>
        THEN [withLevel EXCEPT !.weather = updates.weather[1]]
        ELSE withLevel

\* router.put('/profile', telegramAuth, ...): the middleware answers 401 or
\* 403, or stamps the interaction and hands the document to the route, which
\* assigns, saves and answers 200.
PutProfile(token, updates) ==
  LET u == token.telegramId
      status == IF token.kind # "signed" \/ u \notin DOMAIN users THEN 401
                ELSE IF users[u].isBanned THEN 403
                ELSE 200
      after == IF status = 200
                 THEN [users EXCEPT
                         ![u] = applyProfile(updateLastInteraction(@, clock), updates)]
                 ELSE users
  IN  /\ users' = after
      /\ profileLast' =
           << [telegramId |-> u, status |-> status, updates |-> updates,
               before |-> users, after |-> after] >>
      /\ UNCHANGED <<deletion, chatVars, agData, clock, cronVars, authLast,
                     aiVars, rlVars,
                 channel>>

\* --------------------------------------------------- BotHandler.handleMessage
\* Date.now() in hours: the unit of createdAt and validUntil.
HoursPerDay == 24
nowHours == clock * HoursPerDay

\* The enum of Conversation.intent.
intentEnum ==
  {"greeting", "weather_query", "crop_advice", "market_prices", "pest_control",
   "irrigation", "fertilizer", "disease_diagnosis", "general_agriculture",
   "help", "settings", "subscription", "feedback", "other"}

\* The keys of commandHandlers.
commandHandlers ==
  { <<"/","s","t","a","r","t">>, <<"/","h","e","l","p">>,
    <<"/","w","e","a","t","h","e","r">>, <<"/","m","a","r","k","e","t">>,
    <<"/","n","e","w","s">>, <<"/","a","d","v","i","c","e">>,
    <<"/","p","r","o","f","i","l","e">>, <<"/","s","e","t","t","i","n","g","s">>,
    <<"/","s","u","b","s","c","r","i","b","e">>,
    <<"/","f","e","e","d","b","a","c","k">> }

\* msg.text.split(' ')[0]
RECURSIVE firstWord(_)
firstWord(text) ==
  IF text = << >> \/ Head(text) = " " THEN << >>
  ELSE <<Head(text)>> \o firstWord(Tail(text))

\* The accounts that write to the bot, and what they send: msg.text is absent,
\* << >>, for a photo, or present, << text >>.
ChatUsers == {1}
MessageTexts ==
  { << >>,
    << <<"H","i">> >>,
    << <<"W","E","A","T","H","E","R">> >>,
    << <<"/","s","t","a","r","t">> >>,
    << <<"/","h","e","l","p"," ","m","e">> >>,
    << <<"/","b","o","g","u","s">> >> }

\* new Conversation({...}) as saved: createdAt is stamped by the save.
Conversation(userId, messageId, processed, intent, now) ==
  [ userId |-> userId, messageId |-> messageId, processed |-> processed,
    intent |-> intent, createdAt |-> now ]

\* Conversation.deleteMany({ userId })
deleteManyOf(coll, userId) ==
  [ d \in { x \in DOMAIN coll : x.userId # userId } |-> coll[d] ]

\* doc.save() on a new document.
insert(coll, doc) == coll (+) SetToBag({doc})

\* Model.findByIdAndDelete
remove(dir, u) == [ v \in DOMAIN dir \ {u} |-> dir[v] ]

\* save() of a loaded account that has been deleted in the meantime: the
\* update matches no document and, by the version of the library, is either
\* reported as an error or passes unnoticed.
SaveOutcomes(dir, u) == IF u \in DOMAIN dir THEN {"saved"} ELSE {"lost", "throws"}

\* A message arrives: handleMessage starts and getOrCreateUser finds the
\* account or creates it; the handler holds the document as it was read
\* (loaded: its botData.messageCount).
HandleMessage(from, text) ==
  /\ Len(handlers) < MaxMessages
  /\ users' = IF from \in DOMAIN users THEN users
              ELSE [ v \in DOMAIN users \cup {from} |->
                       IF v = from THEN newUser(Farmer.names, clock) ELSE users[v] ]
  /\ handlers' = Append(handlers,
                        [ from |-> from, messageId |-> Len(handlers) + 1,
                          text |-> text, pc |-> "count", apology |-> FALSE,
                          loaded |-> IF from \in DOMAIN users
                                       THEN users[from].messageCount ELSE 0 ])
  /\ UNCHANGED <<conversations, userApiVars, agData, clock, cronVars, authLast,
                 aiVars, rlVars,
                 channel>>

\* user.incrementMessageCount(): the count of the handler's own copy of the
\* document is raised by one and save() writes that value; an error goes to
\* the catch of handleMessage.
IncrementMessageCount(i, saving) ==
  /\ i \in 1..Len(handlers)
  /\ handlers[i].pc = "count"
  /\ saving \in SaveOutcomes(users, handlers[i].from)
  /\ users' = IF saving = "saved"
                THEN [users EXCEPT ![handlers[i].from] =
                        updateLastInteraction(
                          [@ EXCEPT !.messageCount = handlers[i].loaded + 1],
                          clock)]
                ELSE users
  /\ handlers' = [handlers EXCEPT ![i].pc =
                    IF saving = "throws" THEN "failed" ELSE "dispatch"]
  /\ UNCHANGED <<conversations, userApiVars, agData, clock, cronVars, authLast,
                 aiVars, rlVars,
                 channel>>

\* The intent of the reply of aiService.processMessage(msg.text, user); on an
\* absent text detectIntent throws inside its try.
replyIntent(text, env) ==
  IF text = << >> THEN "error" ELSE processMessage(text[1], env).intent

\* The branch of handleMessage for the message.  A command with a handler:
\* trackCommand saves the account and the handler answers.  A command without
\* one: handleUnknownCommand is not a method of BotHandler, and the call
\* throws.  Anything else: handleAIResponse answers and saves a Conversation
\* of its own, unless the validation of the save rejects the intent; its
\* catch then sends the user the text that asks to rephrase the message
\* (apology).
Dispatch(i, env, saving) ==
  /\ i \in 1..Len(handlers)
  /\ handlers[i].pc = "dispatch"
  /\ LET h == handlers[i]
         isCommand == h.text # << >> /\ h.text[1] # << >> /\ Head(h.text[1]) = "/"
     IN  IF isCommand
           THEN /\ saving \in SaveOutcomes(users, h.from)
                /\ env = CHOOSE e \in Envs : TRUE
                /\ handlers' = [handlers EXCEPT ![i].pc =
                     IF firstWord(h.text[1]) \in commandHandlers /\ saving # "throws"
                       THEN "save" ELSE "failed"]
                /\ UNCHANGED conversations
           ELSE /\ saving = "saved"
                /\ handlers' = [handlers EXCEPT
                                  ![i].pc = "save",
                                  ![i].apology =
                                     replyIntent(h.text, env) \notin intentEnum]
                /\ conversations' =
                     IF replyIntent(h.text, env) \in intentEnum
                       THEN insert(conversations,
                                   Conversation(h.from, h.messageId, TRUE,
                                                replyIntent(h.text, env), nowHours))
                       ELSE conversations
  /\ UNCHANGED <<users, userApiVars, agData, clock, cronVars, authLast,
                 aiVars, rlVars,
                 channel>>

\* conversation.save() at the end of handleMessage.
SaveConversation(i) ==
  /\ i \in 1..Len(handlers)
  /\ handlers[i].pc = "save"
  /\ conversations' = insert(conversations,
                             Conversation(handlers[i].from, handlers[i].messageId,
                                          FALSE, "", nowHours))
  /\ handlers' = [handlers EXCEPT ![i].pc = "done"]
  /\ UNCHANGED <<users, userApiVars, agData, clock, cronVars, authLast,
                 aiVars, rlVars,
                 channel>>

\* ------------------------------------------------------------ DELETE /account
\* telegramAuth lets the request of a stored account that is not banned
\* through to the route, stamping its interaction.
DeleteAccount(token) ==
  LET u == token.telegramId IN
  /\ deletion = << >>
  /\ token.kind = "signed"
  /\ u \in DOMAIN users
  /\ ~users[u].isBanned
  /\ users' = [users EXCEPT ![u] = updateLastInteraction(@, clock)]
  /\ deletion' = << [telegramId |-> u, pc |-> "conversations", arrived |-> 0] >>
  /\ UNCHANGED <<profileLast, chatVars, agData, clock, cronVars, authLast,
                 aiVars, rlVars,
                 channel>>

\* await Conversation.deleteMany({ userId: user.telegramId })
DeleteConversations ==
  /\ deletion # << >>
  /\ deletion[1].pc = "conversations"
  /\ conversations' = deleteManyOf(conversations, deletion[1].telegramId)
  /\ deletion' = << [deletion[1] EXCEPT !.pc = "account"] >>
  /\ UNCHANGED <<profileLast, handlers, users, agData, clock, cronVars, authLast,
                 aiVars, rlVars,
                 channel>>

\* await User.findByIdAndDelete(user._id), and the answer; arrived is the
\* number of messages whose handling had started by then.
DeleteUser ==
  /\ deletion # << >>
  /\ deletion[1].pc = "account"
  /\ users' = remove(users, deletion[1].telegramId)
  /\ deletion' = << [deletion[1] EXCEPT !.pc = "done", !.arrived = Len(handlers)] >>
  /\ UNCHANGED <<profileLast, chatVars, agData, clock, cronVars, authLast,
                 aiVars, rlVars,
                 channel>>

\* PUT /admin/users/:userId with permissions.isBanned in the body.
PutUser(userId, isBanned) ==
  /\ userId \in DOMAIN users
  /\ users' = [users EXCEPT ![userId].isBanned = isBanned]
  /\ UNCHANGED <<clock, cronVars, authLast, aiVars, rlVars, appVars>>

\* ---------------------------------------------------------------- cronJobs
\* The jobs setupJobs schedules, in its order.
JobNames ==
  << "weather_updates", "market_updates", "daily_tips", "weekly_summary",
     "weather_alerts", "market_alerts", "cleanup", "engagement_check" >>

AlertJobs == {"weather_alerts", "market_alerts"}
BroadcastJobs ==
  {"weather_updates", "market_updates", "daily_tips", "weekly_summary",
   "weather_alerts", "market_alerts", "engagement_check"}

\* The start-up configurations: ENABLE_CRON === 'true', and whether each of
\* the three cron expressions taken from the environment is one node-cron
\* accepts.
Configs ==
  [ enable : BOOLEAN, weather : {"valid", "invalid"},
    market : {"valid", "invalid"}, tips : {"valid", "invalid"} ]

\* The expression setupJobs passes for a job.
cronPattern(name, cfg) ==
  CASE name = "weather_updates" -> cfg.weather
    [] name = "market_updates" -> cfg.market
    [] name = "daily_tips" -> cfg.tips
    [] OTHER -> "valid"

\* new Map()
NoJobs == [n \in {} |-> "running"]

\* A task created although start was not asked for.
scheduleJobUnscheduled(registry, name, pattern) ==
  IF pattern = "invalid"
    THEN registry
    ELSE [n \in DOMAIN registry \cup {name} |->
            IF n = name THEN "stopped" ELSE registry[n]]

\* A scheduleJob that puts the job in the map whatever cron.schedule did.
scheduleJobRegardless(registry, name, pattern) ==
  [n \in DOMAIN registry \cup {name} |->
     IF n = name THEN "running" ELSE registry[n]]

\* scheduleJob: cron.schedule throws on an expression it does not accept, and
\* the job is then not put in the map; otherwise the task starts scheduled.
scheduleJob(registry, name, pattern) ==
  IF pattern = "invalid"
    THEN registry
    ELSE [n \in DOMAIN registry \cup {name} |->
            IF n = name THEN "running" ELSE registry[n]]

RECURSIVE setupFrom(_, _, _)
setupFrom(registry, i, cfg) ==
  IF i > Len(JobNames)
    THEN registry
    ELSE setupFrom(scheduleJob(registry, JobNames[i],
                               cronPattern(JobNames[i], cfg)), i + 1, cfg)

setupJobs(registry, cfg) == setupFrom(registry, 1, cfg)

\* AgriBot.initCronJobs, at process start.
InitCronJobs(cfg) ==
  /\ ~booted
  /\ booted' = TRUE
  /\ jobs' = IF cfg.enable THEN setupJobs(jobs, cfg) ELSE jobs
  /\ UNCHANGED <<runs, dirVars, authLast, aiVars, rlVars, appVars>>

startJob(registry, name) ==
  IF name \in DOMAIN registry
    THEN [registry EXCEPT ![name] = "running"]
    ELSE registry

stopJob(registry, name) ==
  IF name \in DOMAIN registry
    THEN [registry EXCEPT ![name] = "stopped"]
    ELSE registry

StartJob(name) ==
  /\ jobs' = startJob(jobs, name)
  /\ UNCHANGED <<booted, runs, dirVars, authLast, aiVars, rlVars, appVars>>

\* A stop that also ends the runs of the job that are under way.
StopJobCancelling(name) ==
  /\ jobs' = stopJob(jobs, name)
  /\ runs' = [i \in 1..Len(runs) |->
                IF runs[i].job = name /\ runs[i].phase = "loop"
                  THEN [runs[i] EXCEPT !.phase = "aborted"]
                  ELSE runs[i]]
  /\ UNCHANGED <<booted, dirVars, authLast, aiVars, rlVars, appVars>>

\* stopJob(name): job.stop() on the task, if the name is in the map.
StopJob(name) ==
  /\ jobs' = stopJob(jobs, name)
  /\ UNCHANGED <<booted, runs, dirVars, authLast, aiVars, rlVars, appVars>>

StopAllJobs ==
  /\ jobs' = [n \in DOMAIN jobs |-> "stopped"]
  /\ UNCHANGED <<booted, runs, dirVars, authLast, aiVars, rlVars, appVars>>

\* A filter for the weather job that leaves the ban out.
matchesBannedToo(job, d, now) ==
  CASE job = "weather_updates" -> d.weather
    [] job = "market_updates" -> d.marketPrices /\ ~d.isBanned /\ Len(d.cropTypes) > 0
    [] job = "daily_tips" -> d.tips /\ ~d.isBanned
    [] job = "weekly_summary" ->
         ~d.isBanned /\ d.lastInteraction >= now - SummaryWindowDays
    [] job = "weather_alerts" -> d.alerts /\ ~d.isBanned /\ d.coordinates
    [] job = "market_alerts" -> d.alerts /\ ~d.isBanned /\ Len(d.cropTypes) > 0
    [] job = "engagement_check" ->
         /\ d.lastInteraction < now - IdleAfterDays
         /\ d.lastInteraction >= now - IdleWithinDays
         /\ ~d.isBanned
    [] job = "cleanup" -> TRUE

\* The filter each handler passes to User.find.
matches(job, d, now) ==
  CASE job = "weather_updates" -> d.weather /\ ~d.isBanned
    [] job = "market_updates" -> d.marketPrices /\ ~d.isBanned /\ Len(d.cropTypes) > 0
    [] job = "daily_tips" -> d.tips /\ ~d.isBanned
    [] job = "weekly_summary" ->
         ~d.isBanned /\ d.lastInteraction >= now - SummaryWindowDays
    [] job = "weather_alerts" -> d.alerts /\ ~d.isBanned /\ d.coordinates
    [] job = "market_alerts" -> d.alerts /\ ~d.isBanned /\ Len(d.cropTypes) > 0
    [] job = "engagement_check" ->
         /\ d.lastInteraction < now - IdleAfterDays
         /\ d.lastInteraction >= now - IdleWithinDays
         /\ ~d.isBanned
    [] job = "cleanup" -> TRUE

find(job, dir, now) == { u \in DOMAIN dir : matches(job, dir[u], now) }

\* The order a query returns documents in: by chat id.
RECURSIVE ordered(_)
ordered(S) ==
  IF S = {} THEN << >>
  ELSE LET least == CHOOSE u \in S : \A v \in S : u <= v
       IN  <<least>> \o ordered(S \ {least})

\* What the collaborators of a firing do: whether the database answers, and
\* whether getDailyTips finds tips or, on an error, returns [].
FireEnvs == [ db : {"up", "down"}, tips : {"some", "none"} ]

\* What the weather API reports as data.main.temp, in tenths of a degree.
ApiReadings == {246}

\* Math.round of a number given in tenths.
round(tenths) == (tenths + 5) \div 10

\* What the collaborators do for one recipient: whether the content service
\* answers (for weather: the forecast request; for cleanup: the Conversation
\* queries), how many alerts it reports, which of the sends, if any,
\* bot.sendMessage rejects, and, for weather, what the request for the
\* current weather gets: no answer, << >>, or << data.main.temp >>.
RecipientEnvs(job) ==
  CASE job = "weather_updates" ->
         { e \in [render : BOOLEAN, alerts : {0}, failAt : 0..1,
                  current : { << >> } \cup { <<t>> : t \in ApiReadings }] :
             e.failAt > 0 => e.render }
    [] job = "market_updates" ->
         { [render |-> FALSE, alerts |-> 0, failAt |-> 0, current |-> << >>] } \cup
         { [render |-> TRUE, alerts |-> 0, failAt |-> f, current |-> << >>] :
             f \in 0..1 }
    [] job \in AlertJobs ->
         { e \in [render : {TRUE}, alerts : 0..MaxAlerts, failAt : 0..MaxAlerts,
                  current : { << >> }] :
             e.failAt <= e.alerts }
    [] job = "cleanup" ->
         { [render |-> ok, alerts |-> 0, failAt |-> 0, current |-> << >>] :
             ok \in BOOLEAN }
    [] OTHER ->
         { [render |-> TRUE, alerts |-> 0, failAt |-> f, current |-> << >>] :
             f \in 0..1 }

\* ------------------------------------------------------------ weatherService
\* storeWeatherData: the document saved for a reading; it is valid for an hour.
ValidHours == 1
snapshot(temperature, now) ==
  [ temperature |-> temperature, lastUpdated |-> now, createdAt |-> now,
    validUntil |-> now + ValidHours ]

\* AgriculturalData.getCurrentWeather(location): the document updated last,
\* whatever its validUntil; << >> when there is none.  The accounts are of
\* one country and state.
cached(store) ==
  IF store = {} THEN << >>
  ELSE << CHOOSE s \in store : \A x \in store : x.lastUpdated <= s.lastUpdated >>

\* getCurrentWeather: the temperature of the answer of the API, rounded, or
\* when the API fails that of the cached document; << >> when it throws.
getCurrentWeather(env, store) ==
  IF env.current # << >> THEN << round(env.current[1]) >>
  ELSE IF cached(store) # << >> THEN << cached(store)[1].temperature >>
  ELSE << >>

\* What getCurrentWeather leaves in the collection.
storeWeatherData(env, store, now) ==
  IF env.current # << >>
    THEN store \cup { snapshot(round(env.current[1]), now) }
    ELSE store

\* getAgriculturalWeather: the current weather, then the forecast, which has
\* no cached fallback; << >> when either throws.
getAgriculturalWeather(env, store) ==
  IF env.render THEN getCurrentWeather(env, store) ELSE << >>

\* ------------------------------------------------------------ cleanupOldData
RetentionDays == 30
KeepPerUser == 1000

\* A deleteMany whose filter takes the documents of the cutoff instant too.
deleteOlderOrAt(docs, cutoff) == { d \in docs : ~(d.createdAt <= cutoff) }

\* deleteMany({ createdAt: { $lt: cutoff } })
deleteOlder(docs, cutoff) == { d \in docs : ~(d.createdAt < cutoff) }

\* .sort({ createdAt: -1 }): the documents newest first.  Documents of one
\* instant come in an order of the database's choosing.
RECURSIVE newestFirst(_)
newestFirst(S) ==
  IF S = {} THEN << >>
  ELSE LET d == CHOOSE x \in S : \A y \in S : y.createdAt <= x.createdAt
       IN  <<d>> \o newestFirst(S \ {d})

\* The same documents oldest first.
RECURSIVE oldestFirst(_)
oldestFirst(S) ==
  IF S = {} THEN << >>
  ELSE LET d == CHOOSE x \in S : \A y \in S : x.createdAt <= y.createdAt
       IN  <<d>> \o oldestFirst(S \ {d})

\* .skip(n) and the deleteMany of what is left: the first n documents of the
\* order stay in the collection.
RECURSIVE skip(_, _, _)
skip(coll, order, n) ==
  IF order = << >> THEN coll
  ELSE LET d == Head(order)
           kept == IF coll[d] < n THEN coll[d] ELSE n
       IN  skip(IF kept = 0
                  THEN [ x \in DOMAIN coll \ {d} |-> coll[x] ]
                  ELSE [coll EXCEPT ![d] = kept],
                Tail(order), n - kept)

\* The loop body of cleanupOldData for one account, with the sort reversed.
keepOldest(coll, userId, n) ==
  skip(coll, oldestFirst({ d \in DOMAIN coll : d.userId = userId }), n)

\* The loop body of cleanupOldData for one account.
keepNewest(coll, userId, n) ==
  skip(coll, newestFirst({ d \in DOMAIN coll : d.userId = userId }), n)

\* A run of a handler: the users the query returned and the documents as
\* read, the loop position, the calls of bot.sendMessage made (paced: the
\* delay was awaited after it), the users logger.warn was called for, the
\* users a collaborator threw for, and per user the messages that were ready
\* to send.
NoDocs == [u \in {} |-> 0]

handler(job, env, dir, now) ==
  LET found == IF env.db = "up" THEN ordered(find(job, dir, now)) ELSE << >>
  IN  [ job |-> job,
        fetched |-> env.db = "up",
        users |-> found,
        read |-> IF env.db = "up" THEN dir ELSE NoDocs,
        tips |-> IF job = "daily_tips" THEN env.tips ELSE "some",
        idx |-> 0,
        sends |-> << >>,
        warned |-> << >>,
        threw |-> {},
        ready |-> [u \in UserIds |-> 0],
        temperature |-> [u \in UserIds |-> << >>],
        phase |-> IF env.db = "down" THEN "aborted"
                  ELSE IF found = << >> THEN "done" ELSE "loop" ]

\* The cron tick of a job whose task is running: the wrapper of scheduleJob
\* calls the handler, which queries the directory.
Fire(job, env) ==
  /\ job \in DOMAIN jobs
  /\ jobs[job] = "running"
  /\ Len(runs) < MaxRuns
  /\ runs' = Append(runs, handler(job, env, users, clock))
  /\ agData' = IF job = "cleanup" /\ env.db = "up"
                 THEN deleteOlder(agData, nowHours - RetentionDays * HoursPerDay)
                 ELSE agData
  /\ UNCHANGED <<jobs, booted, dirVars, authLast, aiVars, rlVars, userApiVars,
                 chatVars,
                 channel>>

\* Whether the message for a recipient can be built.
rendered(r, env) ==
  CASE r.job = "weather_updates" -> getAgriculturalWeather(env, agData) # << >>
    [] r.job = "market_updates" -> env.render
    [] r.job = "daily_tips" -> r.tips = "some"
    [] OTHER -> TRUE

\* How many messages the loop body has for a recipient.
messages(r, env) == IF r.job \in AlertJobs THEN env.alerts ELSE 1

\* The calls of bot.sendMessage for one recipient: up to and including the
\* one that is rejected; the delay follows the last one if none was rejected.
sendsTo(u, n, failAt) ==
  [ k \in 1..(IF failAt = 0 THEN n ELSE failAt) |->
      [to |-> u, ok |-> k # failAt, paced |-> failAt = 0 /\ k = n] ]

\* A loop body without its try/catch: the error ends the handler.
uncaught(r, next, u) ==
  [next EXCEPT !.idx = r.idx, !.threw = @ \cup {u}, !.phase = "aborted"]

\* The catch of the loop body: logger.warn, and on to the next recipient.
caught(r, next, u) ==
  [next EXCEPT !.threw = @ \cup {u}, !.warned = Append(@, u)]

\* One pass of the for loop of a handler.
iterate(r, env) ==
  LET u == r.users[r.idx + 1]
      next == [r EXCEPT !.idx = r.idx + 1,
                        !.phase = IF r.idx + 1 = Len(r.users)
                                    THEN "done" ELSE "loop"]
      n == messages(r, env)
  IN  IF r.job = "cleanup"
        THEN IF env.render THEN next ELSE [r EXCEPT !.phase = "aborted"]
      ELSE IF r.job = "weather_updates" /\ ~r.read[u].coordinates
        THEN next
      ELSE IF ~rendered(r, env)
        THEN caught(r, next, u)
      ELSE LET sent == [next EXCEPT !.ready[u] = n,
                                    !.temperature[u] =
                                       IF r.job = "weather_updates"
                                         THEN getAgriculturalWeather(env, agData)
                                         ELSE << >>,
                                    !.sends = @ \o sendsTo(u, n, env.failAt)]
           IN  IF env.failAt > 0 THEN caught(r, sent, u) ELSE sent

Recipient(i, env) ==
  /\ i \in 1..Len(runs)
  /\ runs[i].phase = "loop"
  /\ env \in RecipientEnvs(runs[i].job)
  /\ runs' = [runs EXCEPT ![i] = iterate(runs[i], env)]
  /\ LET r == runs[i]
         u == r.users[r.idx + 1]
     IN  /\ conversations' =
              IF r.job = "cleanup" /\ env.render
                THEN keepNewest(conversations, u, KeepPerUser)
                ELSE conversations
         /\ agData' =
              IF r.job = "weather_updates" /\ r.read[u].coordinates
                THEN storeWeatherData(env, agData, nowHours)
                ELSE agData
  /\ UNCHANGED <<jobs, booted, dirVars, authLast, aiVars, rlVars, userApiVars,
                 handlers,
                 channel>>

\* The loop body step by step, for the jobs that build their message without
\* the weather service.  Whether this pass of the loop reaches bot.sendMessage.
sendsNow(r, env) ==
  /\ r.job \in BroadcastJobs \ {"weather_updates"}
  /\ rendered(r, env)
  /\ messages(r, env) > 0

\* A call of bot.sendMessage by run i: the k-th of the messages of this pass,
\* and which of them, if any, the channel will reject.
call(i, u, k, env) ==
  [ run |-> i, to |-> u, k |-> k, of |-> messages(runs[i], env),
    failAt |-> env.failAt ]

\* What the collaborators did in the pass a call belongs to.
envOf(r, c) ==
  [ render |-> TRUE, alerts |-> IF r.job \in AlertJobs THEN c.of ELSE 0,
    failAt |-> c.failAt, current |-> << >> ]

\* A handler that does not wait for the promise of bot.sendMessage and goes on
\* to its next recipient.
notAwaited(r) ==
  [r EXCEPT !.idx = r.idx + 1,
            !.phase = IF r.idx + 1 = Len(r.users) THEN "done" ELSE "loop"]

\* `await this.bot.sendMessage(...)`: the handler is suspended until the
\* promise settles.
awaited(r) == [r EXCEPT !.phase = "sending"]

\* The handler of run i calls bot.sendMessage for its next recipient.
SendMessage(i, env) ==
  /\ i \in 1..Len(runs)
  /\ runs[i].phase = "loop"
  /\ env \in RecipientEnvs(runs[i].job)
  /\ sendsNow(runs[i], env)
  /\ channel' = channel \cup {call(i, runs[i].users[runs[i].idx + 1], 1, env)}
  /\ runs' = [runs EXCEPT ![i] = awaited(@)]
  /\ UNCHANGED <<jobs, booted, dirVars, authLast, aiVars, rlVars, userApiVars,
                 chatVars, agData>>

\* The promise of a call settles: the handler sends the next alert of the
\* pass, or ends the pass (delay or catch) and is back at the head of the loop.
Settle(i) ==
  /\ i \in 1..Len(runs)
  /\ runs[i].phase = "sending"
  /\ \E c \in channel :
       /\ c.run = i
       /\ IF c.k < c.of /\ c.k # c.failAt
            THEN /\ channel' = (channel \ {c}) \cup {[c EXCEPT !.k = c.k + 1]}
                 /\ UNCHANGED runs
            ELSE /\ channel' = channel \ {c}
                 /\ runs' = [runs EXCEPT ![i] =
                               iterate([@ EXCEPT !.phase = "loop"],
                                       envOf(runs[i], c))]
  /\ UNCHANGED <<jobs, booted, dirVars, authLast, aiVars, rlVars, userApiVars,
                 chatVars, agData>>

\* router.delete('/data/cleanup') of the admin API, for an administrator:
\* the documents created before the cutoff go, of the Conversation collection
\* when dataType says so and of AgriculturalData otherwise.
AdminCleanup(days, dataType) ==
  LET cutoff == nowHours - days * HoursPerDay IN
  /\ IF dataType = "conversations"
       THEN /\ conversations' =
                 [ d \in { x \in DOMAIN conversations : ~(x.createdAt < cutoff) } |->
                     conversations[d] ]
            /\ UNCHANGED agData
       ELSE /\ agData' = deleteOlder(agData, cutoff)
            /\ UNCHANGED conversations
  /\ UNCHANGED <<handlers, userApiVars, dirVars, cronVars, authLast, aiVars,
                 rlVars,
                 channel>>

\* ---------------------------------------------------------- authentication
\* The Authorization header of a request: absent, a token jwt.verify rejects
\* or finds expired, or a token signed for a chat id.
Tokens ==
  { [kind |-> k, telegramId |-> 0] : k \in {"none", "invalid", "expired"} } \cup
  { [kind |-> "signed", telegramId |-> u] : u \in UserIds }

\* The body of POST /auth/telegram: whether the hash is there and matches,
\* whether auth_date is within a day, and the account data.
AuthData ==
  [ hash : {"ok", "bad", "missing"}, fresh : BOOLEAN,
    id : UserIds, names : NameSets ]

\* What a request did: its status and the account document as it was stored
\* before the request (<< >> when there was none).
stored(dir, u) == IF u \in DOMAIN dir THEN << dir[u] >> ELSE << >>

answer(op, u, status, dir) ==
  << [op |-> op, telegramId |-> u, status |-> status, before |-> stored(dir, u)] >>

\* middleware/auth.js telegramAuth
TelegramAuth(token) ==
  LET u == token.telegramId IN
  /\ IF token.kind # "signed" \/ u \notin DOMAIN users
       THEN /\ authLast' = answer("telegramAuth", u, 401, users)
            /\ UNCHANGED users
     ELSE IF users[u].isBanned
       THEN /\ authLast' = answer("telegramAuth", u, 403, users)
            /\ UNCHANGED users
     ELSE /\ users' = [users EXCEPT ![u] = updateLastInteraction(@, clock)]
          /\ authLast' = answer("telegramAuth", u, 200, users)
  /\ UNCHANGED <<clock, cronVars, aiVars, rlVars, appVars>>

\* validateTelegramLogin
validateTelegramLogin(authData) == authData.hash = "ok" /\ authData.fresh

\* router.post('/telegram'): the account is created, or its names are brought
\* up to date and its last interaction is stamped; the ban is looked at after
\* that.
PostAuthTelegram(authData) ==
  LET u == authData.id IN
  /\ IF ~validateTelegramLogin(authData)
       THEN /\ authLast' = answer("postAuthTelegram", u, 400, users)
            /\ UNCHANGED users
     ELSE IF u \notin DOMAIN users
       THEN /\ users' = [v \in DOMAIN users \cup {u} |->
                           IF v = u THEN newUser(authData.names, clock)
                                    ELSE users[v]]
            /\ authLast' = answer("postAuthTelegram", u, 200, users)
     ELSE /\ users' = [users EXCEPT ![u] =
                         updateLastInteraction([@ EXCEPT !.names = authData.names],
                                               clock)]
          /\ authLast' = answer("postAuthTelegram", u,
                                IF users[u].isBanned THEN 403 ELSE 200, users)
  /\ UNCHANGED <<clock, cronVars, aiVars, rlVars, appVars>>

\* A day passes.
Tick ==
  /\ clock < Today + MaxDays
  /\ clock' = clock + 1
  /\ UNCHANGED <<users, cronVars, authLast, aiVars, rlVars, appVars>>

\* ------------------------------------------------------------ idle subsystems
\* No account is stored.
IdleDirectory ==
  /\ users = NoUsers
  /\ clock = Today

\* The scheduler has not been initialised.
IdleCron ==
  /\ jobs = NoJobs
  /\ booted = FALSE
  /\ runs = << >>

\* No authentication request has been made.
IdleAuth == authLast = << >>

\* No request has reached the user API, no message the bot, and the
\* Conversation and AgriculturalData collections are empty.
IdleUserApi ==
  /\ profileLast = << >>
  /\ deletion = << >>

IdleChat ==
  /\ conversations = EmptyBag
  /\ handlers = << >>

IdleData == agData = {}

IdleChannel == channel = {}

IdleApp == IdleUserApi /\ IdleChat /\ IdleData /\ IdleChannel

\* Nothing has called the rate governor.
IdleRate ==
  /\ rlStore = [l \in Limiters |-> EmptyTable]
  /\ rlNow = 0
  /\ rlTicks = 0
  /\ rlLast = NoOutcome
  /\ rlRequests = [ip \in ClientIps |-> 0]
  /\ userScores = NoScores
  /\ adaptiveLast = << >>

\* No message is being processed.
IdleAI ==
  /\ aiText = << >>
  /\ aiResult = << >>

InitAI ==
  /\ aiText \in Texts
  /\ aiResult = << >>
  /\ IdleRate
  /\ IdleApp
  /\ IdleDirectory
  /\ IdleCron
  /\ IdleAuth

NextAI == \E env \in Envs : ProcessMessage(env)

SpecAI == InitAI /\ [][NextAI]_vars

\* ------------------------------------------------ properties of aiService
\* The order in which the intents are declared.
DeclaredOrder == << "greeting", "weather", "crops", "market", "pest",
                   "irrigation", "fertilizer", "news", "help" >>

\* The intents, by position in the declared order, that have a keyword
\* occurring as a substring of the lower-cased text.
Triggered(text) ==
  LET lowered == toLowerCase(text) IN
  { i \in 1..Len(intents) :
      \E k \in 1..Len(intents[i].keywords) :
        includes(lowered, intents[i].keywords[k]) }

\* C5: classify (detectIntent) returns, for every input text, the first intent
\* of the declared order greeting, weather, crops, market, pest, irrigation,
\* fertilizer, news, help that has a keyword occurring as a substring of the
\* lower-cased text, and general when no intent has one.
C5_FirstMatchWins ==
  aiResult # << >> =>
    LET hit == Triggered(aiText) IN
    /\ Len(intents) = Len(DeclaredOrder)
    /\ \A i \in 1..Len(DeclaredOrder) : intents[i].intent = DeclaredOrder[i]
    /\ hit = {} => aiResult[1].intent = "general"
    /\ \A i \in hit :
         (\A j \in hit : i <= j) => aiResult[1].intent = DeclaredOrder[i]

\* A text with an upper-case letter that triggers two intents has been
\* classified as the earlier one.
C5_Witness ==
  /\ aiResult # << >>
  /\ aiText # toLowerCase(aiText)
  /\ LET hit == Triggered(aiText) IN
     \E i, j \in hit :
       /\ i < j
       /\ \A h \in hit : i <= h
       /\ aiResult[1].intent = DeclaredOrder[i]

\* The canned fallback text of a domain that always delegates to the backend.
DomainFallbackText(intent) ==
  CASE intent = "pest" ->
         "I can help you with pest management! For specific pest issues, please describe ..."
    [] intent = "irrigation" ->
         "I can help with irrigation planning! Consider drip irrigation ..."
    [] intent = "fertilizer" ->
         "For fertilizer advice, consider soil testing first. Organic compost ..."

\* C6: for the intents pest, irrigation and fertilizer, when the advice
\* backend call fails, generate returns that domain's canned fallback text,
\* which is not empty, with a confidence of at most 0.7, and raises no error.
C6_FallbackOnBackendFailure ==
  \A r \in {aiResult[i] : i \in 1..Len(aiResult)} :
    (r.env.backend = "fail" /\ r.detected \in {"pest", "irrigation", "fertilizer"})
      => /\ ~r.generated.threw
         /\ r.generated.text = DomainFallbackText(r.detected)
         /\ r.generated.text # ""
         /\ r.generated.confidence <= 7

\* The backend failed for a pest question and the pest fallback came back.
C6_Witness ==
  /\ aiResult # << >>
  /\ aiResult[1].env.backend = "fail"
  /\ aiResult[1].intent = "pest"
  /\ aiResult[1].text = DomainFallbackText("pest")
  /\ aiResult[1].confidence = 7

\* C15: extractEntities returns exactly one crop entity for every crop name
\* of its vocabulary that occurs in the lower-cased text and exactly one
\* location entity for every place name that occurs, and nothing else; it
\* returns the empty list when none occurs.
occurrences(entities, type, value) ==
  Cardinality({ i \in 1..Len(entities) :
                  entities[i].type = type /\ entities[i].value = value })

C15_OneEntityPerMatch ==
  aiResult # << >> =>
    LET entities == aiResult[1].entities
        lowercaseText == toLowerCase(aiText)
        expected(v) == IF includes(lowercaseText, v) THEN 1 ELSE 0
    IN  /\ \A i \in 1..Len(crops) :
             /\ occurrences(entities, "crop", crops[i]) = expected(crops[i])
             /\ occurrences(entities, "location", crops[i]) = 0
        /\ \A i \in 1..Len(locations) :
             /\ occurrences(entities, "location", locations[i]) = expected(locations[i])
             /\ occurrences(entities, "crop", locations[i]) = 0
        /\ Len(entities) =
             Cardinality({ i \in 1..Len(crops) : includes(lowercaseText, crops[i]) })
             + Cardinality({ i \in 1..Len(locations) :
                               includes(lowercaseText, locations[i]) })

\* A text naming two crops has been processed and both were extracted.
C15_Witness ==
  /\ aiResult # << >>
  /\ occurrences(aiResult[1].entities, "crop", <<"c","o","r","n">>) = 1
  /\ occurrences(aiResult[1].entities, "crop", <<"t","o","m","a","t","o">>) = 1

\* The intents whose response comes from an external backend, and the
\* confidence of their live response, in tenths.
Delegating == {"crops", "pest", "irrigation", "fertilizer", "news", "general"}
LiveConfidence(intent) ==
  CASE intent \in {"crops", "news"} -> 9
    [] OTHER -> 8

\* Whether the backend call made for a response failed.
BackendFailed(intent, env) ==
  IF intent = "news" THEN env.news = "fail" ELSE env.backend = "fail"

\* C16: when the backend call of a delegating intent fails, no error is raised
\* and the confidence of the response is at most 0.7 and strictly below the
\* confidence of the live response of the same intent.
C16_FailureLowersConfidence ==
  (/\ aiResult # << >>
   /\ aiResult[1].detected \in Delegating
   /\ aiResult[1].generated.backendCalled
   /\ BackendFailed(aiResult[1].detected, aiResult[1].env)) =>
    /\ ~aiResult[1].generated.threw
    /\ aiResult[1].intent # "error"
    /\ aiResult[1].confidence <= 7
    /\ aiResult[1].confidence < LiveConfidence(aiResult[1].detected)

\* The texts of the two static answers of the crops intent.
CropFactsText == "*<Crop> Information* Planting Time: ... Harvest Time: ..."
SpecifyCropText ==
  "I'd be happy to help you with crop information! Could you specify which crop ..."

\* Whether some extracted crop entity is a key of the crop table.
CropInTable(entities) ==
  \E i \in 1..Len(entities) :
    entities[i].type = "crop" /\ entities[i].value \in cropDatabase

\* Whether originalText has one of the phrases the crops handler looks for.
HasQuestionPhrase(text) ==
  \/ includes(text, <<"h","o","w"," ","t","o">>)
  \/ includes(text, <<"w","h","e","n"," ","t","o">>)
  \/ includes(text, <<"b","e","s","t">>)

\* C17 as stated: for the crops intent, when an extracted crop is in the crop
\* table the structured facts are rendered and the backend is not called; the
\* backend is called only when no extracted crop is in the table and the text
\* looks like a question.
C17_TableBeforeBackend ==
  (aiResult # << >> /\ aiResult[1].detected = "crops") =>
    /\ CropInTable(aiResult[1].entities) =>
         /\ ~aiResult[1].generated.backendCalled
         /\ aiResult[1].text = CropFactsText
    /\ aiResult[1].generated.backendCalled =>
         /\ ~CropInTable(aiResult[1].entities)
         /\ HasQuestionPhrase(aiText)

\* C17 amended: for the crops intent the backend is called exactly when a crop
\* entity was extracted or the text has "how to", "when to" or "best"; its
\* answer is returned when it succeeds; the structured facts are rendered
\* exactly when the backend was not called or failed and an extracted crop is
\* in the crop table, and the request to specify a crop in the remaining cases.
C17_BackendBeforeTable ==
  (aiResult # << >> /\ aiResult[1].detected = "crops") =>
    LET r == aiResult[1]
        called == r.generated.backendCalled
        answered == called /\ r.env.backend # "fail"
    IN  /\ called <=>
             \/ \E i \in 1..Len(r.entities) : r.entities[i].type = "crop"
             \/ HasQuestionPhrase(aiText)
        /\ answered => r.text = backendText(r.env) /\ r.confidence = 9
        /\ (~answered /\ CropInTable(r.entities)) =>
             r.text = CropFactsText /\ r.confidence = 9
        /\ (~answered /\ ~CropInTable(r.entities)) =>
             r.text = SpecifyCropText /\ r.confidence = 7

\* A text that names a crop of the table without any of the phrases has been
\* answered by the backend.
C17_Witness ==
  /\ aiResult # << >>
  /\ aiResult[1].detected = "crops"
  /\ CropInTable(aiResult[1].entities)
  /\ ~HasQuestionPhrase(aiText)
  /\ aiResult[1].generated.backendCalled
  /\ aiResult[1].text = backendText(aiResult[1].env)

InitRate ==
  /\ IdleRate
  /\ IdleApp
  /\ IdleAI
  /\ IdleDirectory
  /\ IdleCron
  /\ IdleAuth

\* The bot-side checks and the administrative reset.
NextBot ==
  \/ \E u \in RlUsers : CheckBotRateLimit(u)
  \/ \E u \in RlUsers : CheckMessageRateLimit(u)
  \/ \E u \in RlUsers, type \in ResetTypes : ResetRateLimit(u, type)
  \/ \E d \in tickSteps("bot") : RlTick(d)

SpecBot == InitRate /\ [][NextBot]_vars

\* HTTP requests to the routers under /api.
NextApi ==
  \/ \E ip \in ClientIps, router \in Routers, admin \in RlUsers \cup {0} :
       ApiRequest(ip, router, admin)
  \/ RlTick(duration("api") * 1000)

SpecApi == InitRate /\ [][NextApi]_vars

\* Two identities on every bucket: the bot-side checks of both, requests from
\* an address with and without the token of an administrator, and resets,
\* all within one window.
BucketUsers == {1, 2}

lightlyCharged(l, key) ==
  LET table == live(rlStore[l], rlNow) IN
  key \in DOMAIN table => table[key].value < MaxCharges

NextBuckets ==
  \/ \E u \in BucketUsers :
       lightlyCharged("bot", Key("", u)) /\ CheckBotRateLimit(u)
  \/ \E u \in BucketUsers :
       lightlyCharged("message", Key("", u)) /\ CheckMessageRateLimit(u)
  \/ \E u \in BucketUsers :
       lightlyCharged("premium", Key("", u)) /\ CheckPremiumRateLimit(u)
  \/ \E ip \in ClientIps, router \in {"auth", "admin"}, admin \in RlUsers \cup {0} :
       /\ lightlyCharged("api", Key("", ip))
       /\ ApiRequest(ip, router, admin)
  \/ \E u \in BucketUsers, type \in ResetTypes : ResetRateLimit(u, type)

SpecBuckets == InitRate /\ [][NextBuckets]_vars

\* Which request in a row the next one of an identity is.
inARow(userId) ==
  nth(adaptiveLast, userId, getAdjustedLimit(userScores, userId, BaseLimit))

\* Requests through the adaptive limiter, and recomputations of trust scores.
NextAdaptive ==
  \/ \E u \in RlUsers, m \in Counts, c \in Counts, r \in Counts :
       CalculateTrustScore(u, m, c, r)
  \/ \E u \in RlUsers \cup {0}, ip \in ClientIps :
       /\ inARow(u) <= 1 + MaxOver
       /\ AdaptiveRateLimiter(u, ip)

SpecAdaptive == InitRate /\ [][NextAdaptive]_vars

\* An identity whose counters give it a low, a middling or a high trust score
\* makes requests in a row within one window, up to past the largest limit.
WindowCounters == { <<5, 0, 2>>, <<2, 2, 0>>, <<1, 0, 0>> }

NextWindow ==
  \/ \E u \in RlUsers, c \in WindowCounters :
       CalculateTrustScore(u, c[1], c[2], c[3])
  \/ \E u \in RlUsers, ip \in ClientIps :
       /\ inARow(u) <= (BaseLimit * 15) \div 10 + MaxOver
       /\ AdaptiveRateLimiter(u, ip)

SpecWindow == InitRate /\ [][NextWindow]_vars

\* ------------------------------------------------- behaviours of the scheduler
\* The registry after a start with ENABLE_CRON=true and accepted expressions.
DefaultConfig ==
  [enable |-> TRUE, weather |-> "valid", market |-> "valid", tips |-> "valid"]

\* One run of a job, from its query to its end, while an administrator bans
\* and unbans accounts.
InitRun ==
  /\ users \in [UserIds -> Profiles]
  /\ clock = Today
  /\ jobs = setupJobs(NoJobs, DefaultConfig)
  /\ booted = TRUE
  /\ runs = << >>
  /\ IdleAuth
  /\ IdleAI
  /\ IdleRate
  /\ IdleApp

NextRun ==
  \/ \E job \in BroadcastJobs \cup {"cleanup"}, env \in FireEnvs :
       runs = << >> /\ Fire(job, env)
  \/ \E i \in 1..Len(runs) :
       \E env \in RecipientEnvs(runs[i].job) : Recipient(i, env)
  \/ \E u \in UserIds, isBanned \in BOOLEAN : PutUser(u, isBanned)

SpecRun == InitRun /\ [][NextRun]_vars

\* One run of a broadcast job with its calls of bot.sendMessage as steps of
\* their own: the call, and the settling of its promise.
FanOutJobs == {"market_updates", "daily_tips", "weather_alerts"}

NextFanOut ==
  \/ \E job \in FanOutJobs, env \in FireEnvs : runs = << >> /\ Fire(job, env)
  \/ \E i \in 1..Len(runs) :
       \E env \in RecipientEnvs(runs[i].job) :
         ~sendsNow(runs[i], env) /\ Recipient(i, env)
  \/ \E i \in 1..Len(runs) :
       \E env \in RecipientEnvs(runs[i].job) : SendMessage(i, env)
  \/ \E i \in 1..Len(runs) : Settle(i)

SpecFanOut == InitRun /\ [][NextFanOut]_vars

\* The names the operator passes to startJob and stopJob, and the jobs whose
\* cron tick is followed.
OperatorNames == {"weather_updates", "engagement_check", "no_such_job"}
FiredJobs == {"weather_updates", "engagement_check"}

\* The process from construction on: start-up, cron ticks, runs and the
\* operator's job control, over a directory of farmers and the weather
\* snapshot an earlier request of this hour stored.
InitSched ==
  /\ users = [u \in UserIds |-> Farmer]
  /\ clock = Today
  /\ IdleCron
  /\ IdleAuth
  /\ IdleAI
  /\ IdleRate
  /\ IdleUserApi
  /\ IdleChannel
  /\ IdleChat
  /\ agData = { snapshot(round(t), Today * HoursPerDay) : t \in ApiReadings }

NextSched ==
  \/ \E cfg \in Configs : InitCronJobs(cfg)
  \/ \E name \in OperatorNames : StartJob(name)
  \/ \E name \in OperatorNames : StopJob(name)
  \/ StopAllJobs
  \/ \E job \in FiredJobs, env \in FireEnvs : Fire(job, env)
  \/ \E i \in 1..Len(runs) :
       \E env \in RecipientEnvs(runs[i].job) : Recipient(i, env)

SpecSched == InitSched /\ [][NextSched]_vars

\* ------------------------------------ behaviours of the authentication paths
\* One account is stored, banned or not; the other chat id has none yet.
InitAuth ==
  /\ \E isBanned \in BOOLEAN :
       users = [u \in {1} |-> [Farmer EXCEPT !.isBanned = isBanned]]
  /\ clock = Today
  /\ IdleCron
  /\ IdleAuth
  /\ IdleAI
  /\ IdleRate
  /\ IdleApp

NextAuth ==
  \/ \E token \in Tokens : TelegramAuth(token)
  \/ \E authData \in AuthData : PostAuthTelegram(authData)
  \/ \E u \in UserIds, isBanned \in BOOLEAN : PutUser(u, isBanned)
  \/ Tick

SpecAuth == InitAuth /\ [][NextAuth]_vars

\* Messages of an account to the bot, and the account's deletion request.
InitChat ==
  /\ users = [u \in ChatUsers |-> Farmer]
  /\ clock = Today
  /\ IdleCron
  /\ IdleAuth
  /\ IdleAI
  /\ IdleRate
  /\ IdleApp

NextChat ==
  \/ \E from \in ChatUsers, text \in MessageTexts : HandleMessage(from, text)
  \/ \E i \in 1..MaxMessages, saving \in {"saved", "lost", "throws"} :
       IncrementMessageCount(i, saving)
  \/ \E i \in 1..MaxMessages, env \in Envs, saving \in {"saved", "lost", "throws"} :
       Dispatch(i, env, saving)
  \/ \E i \in 1..MaxMessages : SaveConversation(i)
  \/ \E token \in Tokens : DeleteAccount(token)
  \/ DeleteConversations
  \/ DeleteUser

SpecChat == InitChat /\ [][NextChat]_vars

\* The instants stored documents were created at: a day before the cutoff of
\* the cleanup, at the cutoff, and now.
Instants ==
  { Today * HoursPerDay - (RetentionDays + 1) * HoursPerDay,
    Today * HoursPerDay - RetentionDays * HoursPerDay,
    Today * HoursPerDay }

\* How many Conversation documents of an instant a stored collection holds.
StoredCounts == (0..MaxExtra) \cup (KeepPerUser..(KeepPerUser + MaxExtra))

\* The Conversation collections of account 1 the cleanup is examined with.
ConversationStores ==
  { [ d \in { Conversation(1, 0, FALSE, "", t) : t \in { x \in Instants : c[x] > 0 } }
        |-> c[d.createdAt] ] : c \in [Instants -> StoredCounts] }

\* The days and dataType of the bodies of DELETE /data/cleanup.
CleanupDays == {1, RetentionDays}
DataTypes == {"conversations", "weather"}

\* The cleanup job and the cleanup request over stored collections.
InitCleanup ==
  /\ users = [u \in {1} |-> Farmer]
  /\ clock = Today
  /\ jobs = setupJobs(NoJobs, DefaultConfig)
  /\ booted = TRUE
  /\ runs = << >>
  /\ conversations \in ConversationStores
  /\ agData = { snapshot(20, t) : t \in Instants }
  /\ handlers = << >>
  /\ IdleUserApi
  /\ IdleChannel
  /\ IdleAuth
  /\ IdleAI
  /\ IdleRate

NextCleanup ==
  \/ \E env \in FireEnvs : Fire("cleanup", env)
  \/ \E i \in 1..Len(runs) :
       \E env \in RecipientEnvs(runs[i].job) : Recipient(i, env)
  \/ \E days \in CleanupDays, dataType \in DataTypes : AdminCleanup(days, dataType)

SpecCleanup == InitCleanup /\ [][NextCleanup]_vars

\* The AgriculturalData collections the weather job is examined with: empty,
\* a snapshot stored an hour ago, which is valid until now, with the reading
\* the API would give or with another one, and a snapshot that has expired.
WeatherStores ==
  { {},
    { snapshot(20, Today * HoursPerDay - ValidHours) },
    { snapshot(25, Today * HoursPerDay - ValidHours) },
    { snapshot(20, Today * HoursPerDay - ValidHours - 1) } }

\* One run of the weather job over stored accounts and snapshots.
InitWeather ==
  /\ users \in [UserIds -> Profiles]
  /\ clock = Today
  /\ jobs = setupJobs(NoJobs, DefaultConfig)
  /\ booted = TRUE
  /\ runs = << >>
  /\ agData \in WeatherStores
  /\ IdleChat
  /\ IdleUserApi
  /\ IdleChannel
  /\ IdleAuth
  /\ IdleAI
  /\ IdleRate

NextWeather ==
  \/ \E env \in FireEnvs : runs = << >> /\ Fire("weather_updates", env)
  \/ \E i \in 1..Len(runs) :
       \E env \in RecipientEnvs(runs[i].job) : Recipient(i, env)

SpecWeather == InitWeather /\ [][NextWeather]_vars

\* Profile updates of a stored account, banned or not.
NextProfile == \E token \in Tokens, updates \in ProfileUpdates : PutProfile(token, updates)

SpecProfile == InitAuth /\ [][NextProfile]_vars

\* --------------------------------------------- properties of the rate governor
\* The capacities the bot-command and message buckets are said to have.
ClaimedCapacity(op) ==
  CASE op = "checkBotRateLimit" -> 30
    [] op = "checkMessageRateLimit" -> 60

\* C4: for the bot-command bucket (30 per 60 s) and the message bucket (60 per
\* 60 s), the first N consumes of one identity within a window are allowed
\* (so is the first consume after the window has elapsed, which opens a new
\* one), and consume number N+1 is denied with a retry-after in seconds that
\* is strictly positive.
C4_WindowAndPositiveRetryAfter ==
  rlLast.op \in {"checkBotRateLimit", "checkMessageRateLimit"} =>
    /\ rlLast.consumedPoints <= ClaimedCapacity(rlLast.op) => rlLast.allowed
    /\ rlLast.consumedPoints = ClaimedCapacity(rlLast.op) + 1 =>
         /\ ~rlLast.allowed
         /\ rlLast.remainingTime > 0

\* The buckets reset(identity, type) is said to reset.
ClaimedReset(type) == IF type = "all" THEN Limiters ELSE {type}

\* C8: after reset(identity, b), or reset(identity, all) for every bucket, a
\* consume by that identity in a reset bucket is allowed.
C8_ResetAllowsNextConsume ==
  rlLast.op = "resetRateLimit" =>
    \A l \in ClaimedReset(rlLast.type) :
      ~rejects(l, incrby(rlStore[l], l, Key("", rlLast.userId), rlNow).res)

\* C9: each HTTP request to a rate-limited /api route charges exactly one
\* point to the caller's general-API bucket (100 per 15 minutes): the first
\* 100 requests of one caller within a window are allowed and request number
\* 101 is answered 429.
C9_OnePointPerRequest ==
  rlLast.op = "apiRequest" =>
    /\ rlLast.charged = 1
    /\ rlRequests[rlLast.userId] <= 100 => rlLast.status # 429
    /\ rlRequests[rlLast.userId] = 101 => rlLast.status = 429

\* The points a key has left in a bucket.
remaining(store, l, key, t) ==
  LET table == live(store[l], t) IN
  IF key \in DOMAIN table THEN points(l) - table[key].value ELSE points(l)

\* The keys the buckets hold before or after a step.
KeysInUse == UNION { DOMAIN rlStore[l] \cup DOMAIN rlStore'[l] : l \in Limiters }

Untouched(l, key) ==
  remaining(rlStore', l, key, rlNow') = remaining(rlStore, l, key, rlNow)

\* C21: buckets are independent per identity and bucket.  A consume of the
\* bot-side checks changes the points left of its own identity in its own
\* bucket only; a request changes only the general-API bucket, and there only
\* the points of its address and of the administrator it is authenticated
\* as; a reset changes only the points of its own identity, and only in the
\* buckets it names.
C21_BucketsAreIndependent ==
  [][rlNow' = rlNow =>
       \A l \in Limiters, key \in KeysInUse :
         \/ Untouched(l, key)
         \/ /\ rlLast'.op \in {"checkBotRateLimit", "checkMessageRateLimit",
                                "checkPremiumRateLimit"}
            /\ l = rlLast'.type
            /\ key = Key("", rlLast'.userId)
         \/ /\ rlLast'.op = "apiRequest"
            /\ l = "api"
            /\ \/ key = Key("", rlLast'.userId)
               \/ rlLast'.type = "admin" /\ rlLast'.status # 401
         \/ /\ rlLast'.op = "resetRateLimit"
            /\ l \in ClaimedReset(rlLast'.type)
            /\ key = Key("", rlLast'.userId)
    ]_vars

\* Two identities hold different numbers of points in the bot-command bucket,
\* one of them holds points in the message and premium buckets as well, the
\* general-API bucket holds records of an address and of an administrator,
\* and the last operation was a reset.
C21_Witness ==
  /\ rlLast.op = "resetRateLimit"
  /\ \E u, v \in BucketUsers :
       /\ u # v
       /\ remaining(rlStore, "bot", Key("", u), rlNow)
            < remaining(rlStore, "bot", Key("", v), rlNow)
       /\ remaining(rlStore, "message", Key("", u), rlNow) < points("message")
       /\ remaining(rlStore, "premium", Key("", u), rlNow) < points("premium")
  /\ Cardinality(DOMAIN rlStore["api"]) = 2

\* ----------------------------------------------- properties of the scheduler
\* The calls of bot.sendMessage a run made for an account, by their result.
sendsOf(r, u, ok) ==
  Cardinality({ k \in 1..Len(r.sends) : r.sends[k].to = u /\ r.sends[k].ok = ok })

\* How often a run called logger.warn for an account.
warnings(r, u) == Cardinality({ k \in 1..Len(r.warned) : r.warned[k] = u })

\* The accounts a run has to deliver to: those its query returned, less the
\* ones the weather job passes over for want of coordinates.
Eligible(r) ==
  { u \in { r.users[k] : k \in 1..Len(r.users) } :
      r.job = "weather_updates" => r.read[u].coordinates }

\* C1 as stated: in a finished run of a broadcast job over M eligible accounts of
\* which K (K < M) had a failing delivery, the number of successful sends is
\* M - K and K failures were logged.
C1_SuccessfulSendsAreMMinusK ==
  \A i \in 1..Len(runs) :
    LET r == runs[i]
        M == Cardinality(Eligible(r))
        K == Cardinality(r.threw)
    IN  (r.job \in BroadcastJobs /\ r.fetched /\ r.phase = "done" /\ K < M) =>
          /\ Cardinality({ k \in 1..Len(r.sends) : r.sends[k].ok }) = M - K
          /\ Len(r.warned) = K

\* C1 amended: a run of a broadcast job whose query succeeded never aborts; when
\* it has finished it has gone through every account the query returned, each
\* of the K accounts with a failing delivery was logged exactly once and
\* nothing else was logged, and each of the other M - K eligible accounts
\* received every message that was ready for it and no failed send: exactly
\* one message in the single-message jobs, one per reported alert in the alert
\* jobs.
C1_FailureIsolation ==
  \A i \in 1..Len(runs) :
    LET r == runs[i]
        M == Eligible(r)
        K == r.threw
    IN  (r.job \in BroadcastJobs /\ r.fetched) =>
          /\ r.phase # "aborted"
          /\ r.phase = "done" =>
               /\ r.idx = Len(r.users)
               /\ K \subseteq M
               /\ Len(r.warned) = Cardinality(K)
               /\ \A u \in K : warnings(r, u) = 1 /\ sendsOf(r, u, FALSE) <= 1
               /\ \A u \in M \ K :
                    /\ sendsOf(r, u, FALSE) = 0
                    /\ sendsOf(r, u, TRUE) = r.ready[u]
                    /\ r.job \notin AlertJobs => r.ready[u] = 1

\* A finished run over two accounts in which the delivery to the first one
\* failed and the second one still received its message.
C1_Witness ==
  \E i \in 1..Len(runs) :
    /\ runs[i].job \in BroadcastJobs
    /\ runs[i].phase = "done"
    /\ Len(runs[i].users) = 2
    /\ runs[i].threw = { runs[i].users[1] }
    /\ runs[i].warned = << runs[i].users[1] >>
    /\ sendsOf(runs[i], runs[i].users[2], TRUE) >= 1

\* C7: in a run of the weather job no account is sent to more than once, and
\* when the run has finished the accounts bot.sendMessage was called for are
\* exactly those that, in the documents read at the start of the run, had
\* weather notifications on, were not banned and had coordinates, and whose
\* message could be built.
C7_WeatherEligibility ==
  \A i \in 1..Len(runs) :
    LET r == runs[i] IN
    (r.job = "weather_updates" /\ r.fetched) =>
      /\ \A u \in UserIds : sendsOf(r, u, TRUE) + sendsOf(r, u, FALSE) <= 1
      /\ \A k \in 1..Len(r.sends) :
           LET d == r.read[r.sends[k].to]
           IN  d.weather /\ ~d.isBanned /\ d.coordinates
      /\ r.phase = "done" =>
           \A u \in DOMAIN r.read :
             (\E k \in 1..Len(r.sends) : r.sends[k].to = u) <=>
               /\ r.read[u].weather
               /\ ~r.read[u].isBanned
               /\ r.read[u].coordinates
               /\ r.ready[u] = 1

\* A finished weather run that sent to one account and passed over another
\* that the query returned but that has no coordinates.
C7_Witness ==
  \E i \in 1..Len(runs) :
    /\ runs[i].job = "weather_updates"
    /\ runs[i].phase = "done"
    /\ \E u, v \in UserIds :
         /\ sendsOf(runs[i], u, TRUE) = 1
         /\ runs[i].read[v].weather
         /\ ~runs[i].read[v].isBanned
         /\ ~runs[i].read[v].coordinates
         /\ sendsOf(runs[i], v, TRUE) + sendsOf(runs[i], v, FALSE) = 0

\* C2: a job is running when it enters the registry and never leaves it; it
\* goes from running to stopped only in a step of stopJob(name) or
\* stopAllJobs, and from stopped to running only in a step of startJob(name);
\* a step of a handler, failing or not, changes no job's state; startJob and
\* stopJob with a name that is not registered change nothing.
C2_JobStateMachine ==
  [][ /\ DOMAIN jobs \subseteq DOMAIN jobs'
      /\ \A n \in DOMAIN jobs' \ DOMAIN jobs : jobs'[n] = "running"
      /\ \A n \in DOMAIN jobs :
           /\ (jobs[n] = "running" /\ jobs'[n] = "stopped") =>
                (StopJob(n) \/ StopAllJobs)
           /\ (jobs[n] = "stopped" /\ jobs'[n] = "running") => StartJob(n)
      /\ runs' # runs => jobs' = jobs
      /\ \A n \in OperatorNames \ DOMAIN jobs :
           (StartJob(n) \/ StopJob(n)) => UNCHANGED vars
    ]_vars

\* The place of an account in the result of the query of a run.
pos(found, u) == CHOOSE p \in 1..Len(found) : found[p] = u

\* C23: a run has no parallel fan-out.  At most one call of bot.sendMessage
\* of a run is unsettled at any instant, and it is for the recipient the loop
\* is at; the calls that have settled were for recipients before that one,
\* in the order the query returned them.
C23_OneSendInFlightInQueryOrder ==
  \A i \in 1..Len(runs) :
    LET r == runs[i]
        mine == {c \in channel : c.run = i}
    IN  /\ Cardinality(mine) <= 1
        /\ \A c \in mine : r.phase = "sending" /\ c.to = r.users[r.idx + 1]
        /\ \A a \in 1..Len(r.sends) :
             /\ \E p \in 1..r.idx : r.users[p] = r.sends[a].to
             /\ \A b \in 1..Len(r.sends) :
                  a < b => pos(r.users, r.sends[a].to) <= pos(r.users, r.sends[b].to)

\* The call for the second recipient of a run is unsettled, the second of
\* its alerts, while the calls for the first recipient have settled.
C23_Witness ==
  \E i \in 1..Len(runs) :
    /\ runs[i].phase = "sending"
    /\ runs[i].idx = 1
    /\ Len(runs[i].sends) >= 1
    /\ \E c \in channel : c.run = i /\ c.k = 2

\* C24: in every run of a broadcast job the pacing delay of the job is
\* awaited between any two successive calls of bot.sendMessage, also after a
\* call that was rejected and between the alerts of one recipient.
C24_DelayBetweenSuccessiveSends ==
  \A i \in 1..Len(runs) :
    runs[i].job \in BroadcastJobs =>
      \A a \in 1..(Len(runs[i].sends) - 1) : runs[i].sends[a].paced

\* C28: no job calls bot.sendMessage for an account that is banned at the
\* moment of the call, a ban set while the run is under way included.
C28_NoSendToBannedAccount ==
  [][\A i \in 1..Len(runs) :
       (Len(runs') >= i /\ Len(runs'[i].sends) > Len(runs[i].sends)) =>
         \A a \in (Len(runs[i].sends) + 1)..Len(runs'[i].sends) :
           ~users[runs'[i].sends[a].to].isBanned
    ]_vars

\* C30: at most one run of a job is under way at any time: no firing of a
\* job starts a run while an earlier run of the same job is still in its
\* loop over the recipients.
C30_OneRunPerJobInFlight ==
  \A i, j \in 1..Len(runs) :
    (i < j /\ runs[i].job = runs[j].job) =>
      ~(runs[i].phase = "loop" /\ runs[j].phase = "loop")

\* The names of the fixed list.
AllJobs == { JobNames[i] : i \in 1..Len(JobNames) }

\* The jobs whose expression comes from the environment and is not accepted.
Rejected(cfg) ==
  {n \in {"weather_updates"} : cfg.weather = "invalid"}
    \cup {n \in {"market_updates"} : cfg.market = "invalid"}
    \cup {n \in {"daily_tips"} : cfg.tips = "invalid"}

\* C22 as stated: when the process has started, the registry holds exactly
\* the eight named jobs, each under its own name and each running, in every
\* start-up configuration.
C22_EightJobsInEveryConfiguration ==
  [][(~booted /\ booted') =>
       /\ DOMAIN jobs' = AllJobs
       /\ Cardinality(DOMAIN jobs') = 8
       /\ \A n \in DOMAIN jobs' : jobs'[n] = "running"
    ]_vars

\* C22: when the process has started with ENABLE_CRON set to 'true', the
\* registry holds, each under its own name and running, exactly the jobs of
\* the fixed list whose cron expression was accepted: all eight when the
\* three expressions of the environment are accepted, and the eight less the
\* rejected ones otherwise.  With ENABLE_CRON not 'true' the registry is
\* empty.
C22_RegistryAfterStart ==
  [][\A cfg \in Configs :
       InitCronJobs(cfg) =>
         /\ DOMAIN jobs' = IF cfg.enable THEN AllJobs \ Rejected(cfg) ELSE {}
         /\ \A n \in DOMAIN jobs' : jobs'[n] = "running"
         /\ (cfg.enable /\ Rejected(cfg) = {}) =>
              Cardinality(DOMAIN jobs') = 8
    ]_vars

\* The process has started and the eight jobs are registered and running.
C22_Witness ==
  /\ booted
  /\ DOMAIN jobs = AllJobs
  /\ Cardinality(DOMAIN jobs) = 8
  /\ \A n \in DOMAIN jobs : jobs[n] = "running"
  /\ runs = << >>

\* A handler has failed, and one job is stopped while another is running.
C2_Witness ==
  /\ \E i \in 1..Len(runs) : runs[i].phase = "aborted"
  /\ \E n, m \in DOMAIN jobs : jobs[n] = "stopped" /\ jobs[m] = "running"

\* C3: a run that is in its loop can always take its next recipient, whatever
\* the state of its job; a run changes only by taking a recipient and ends
\* only after its last one; and a new run begins only for a job that is
\* running, which a stopped job becomes only in a step of startJob(name).
C3_StopSparesRunInFlight ==
  /\ [](\A i \in 1..Len(runs) :
          /\ runs[i].phase = "loop" =>
               ENABLED (\E env \in RecipientEnvs(runs[i].job) : Recipient(i, env))
          /\ (runs[i].fetched /\ runs[i].phase # "loop") =>
               runs[i].idx = Len(runs[i].users))
  /\ [][ /\ Len(runs') >= Len(runs)
         /\ \A i \in 1..Len(runs) :
              runs'[i] # runs[i] =>
                \E env \in RecipientEnvs(runs[i].job) : Recipient(i, env)
         /\ Len(runs') > Len(runs) => jobs[runs'[Len(runs')].job] = "running"
         /\ \A n \in DOMAIN jobs :
              (jobs[n] = "stopped" /\ jobs'[n] = "running") => StartJob(n)
       ]_vars

\* The weather job has been stopped while a run of it has taken one of its
\* two recipients.
C3_Witness ==
  /\ "weather_updates" \in DOMAIN jobs
  /\ jobs["weather_updates"] = "stopped"
  /\ \E i \in 1..Len(runs) :
       /\ runs[i].job = "weather_updates"
       /\ runs[i].phase = "loop"
       /\ runs[i].idx = 1
       /\ Len(runs[i].users) = 2

\* ------------------------------------ properties of the authentication paths
\* C10: a request that is answered 403 because the account is banned leaves
\* the stored account document as it was before the request.
C10_BannedRequestMutatesNothing ==
  (authLast # << >> /\ authLast[1].status = 403) =>
    << users[authLast[1].telegramId] >> = authLast[1].before

\* ------------------------------------------ properties of the adaptive limiter
\* C20: a request of an identity whose computed trust score is below 0.1, the
\* score 0 included, is denied.
C20_LowTrustIsDenied ==
  (/\ adaptiveLast # << >>
   /\ adaptiveLast[1].userId \in DOMAIN userScores
   /\ lessThanTenths(userScores[adaptiveLast[1].userId], blockThreshold)) =>
    /\ adaptiveLast[1].blocked
    /\ adaptiveLast[1].status = 429

\* C26: an identity that is not blocked gets its trust-adjusted capacity
\* enforced: of the requests it makes in a row within one window under one
\* limit, those beyond the limit are denied.
C26_AdjustedCapacityIsEnforced ==
  (/\ adaptiveLast # << >>
   /\ adaptiveLast[1].userId # 0
   /\ ~adaptiveLast[1].blocked
   /\ adaptiveLast[1].nth > adaptiveLast[1].limit) =>
    adaptiveLast[1].status = 429

\* ------------------------------------------------- properties of the user API
\* Whether a body of PUT /profile holds a value outside the closed lists.
invalid(updates) ==
  \/ updates.cropTypes # << >> /\
       \E i \in 1..Len(updates.cropTypes[1]) : updates.cropTypes[1][i] \notin validCrops
  \/ updates.farmingType # << >> /\ updates.farmingType[1] \notin validTypes
  \/ updates.experience # << >> /\ updates.experience[1] \notin validLevels

\* The fields a profile update writes.
written(doc) ==
  << doc.cropTypes, doc.farmingType, doc.experience, doc.weather >>

\* C11: a profile update holding an invalid value is answered with an error
\* and none of its fields, valid or not, is applied to the account.
C11_InvalidUpdateAppliesNothing ==
  (/\ profileLast # << >>
   /\ profileLast[1].status \notin {401, 403}
   /\ invalid(profileLast[1].updates)) =>
    /\ profileLast[1].status >= 400
    /\ written(profileLast[1].after[profileLast[1].telegramId])
         = written(profileLast[1].before[profileLast[1].telegramId])

\* ------------------------------------------------ properties of the bot handler
\* The Conversation documents of a message.
recordsOf(h) ==
  { d \in DOMAIN conversations : d.userId = h.from /\ d.messageId = h.messageId }

count(h) ==
  LET ds == recordsOf(h)
      RECURSIVE sum(_)
      sum(S) == IF S = {} THEN 0
                ELSE LET d == CHOOSE x \in S : TRUE
                     IN  conversations[d] + sum(S \ {d})
  IN  sum(ds)

finished(h) == h.pc \in {"done", "failed"}

\* C13: once the handling of an inbound message has ended, the collection
\* holds exactly one Conversation for it, command or free text.
C13_OneRecordPerMessage ==
  deletion = << >> =>
    \A i \in 1..Len(handlers) : finished(handlers[i]) => count(handlers[i]) = 1

\* C12: once the deletion request of an account has completed, no
\* Conversation of a message of that account whose handling had started by
\* then exists, however the handling and the deletion interleave.
C12_DeletionCascades ==
  (deletion # << >> /\ deletion[1].pc = "done") =>
    \A d \in DOMAIN conversations :
      d.userId = deletion[1].telegramId => d.messageId > deletion[1].arrived

\* C27: once handleAIResponse has answered a free-text message, and while no
\* account has been deleted, a Conversation that carries the intent detected
\* in the text is stored for the message, and the user was sent no error text
\* after the answer.
C27_DetectedIntentIsRecorded ==
  deletion = << >> =>
    \A i \in 1..Len(handlers) :
      LET h == handlers[i] IN
      (/\ h.pc \in {"save", "done"}
       /\ h.text # << >>
       /\ h.text[1] # << >>
       /\ Head(h.text[1]) # "/") =>
        /\ ~h.apology
        /\ \E d \in DOMAIN conversations :
             /\ d.userId = h.from
             /\ d.messageId = h.messageId
             /\ d.processed
             /\ d.intent = detectIntent(h.text[1])

\* The handlers of the messages of an account.
handlersOf(u) == { i \in 1..Len(handlers) : handlers[i].from = u }

\* C29: messageCount counts the messages of an account: when the handlers of
\* its messages have all ended without an error, and no account was deleted,
\* the count has risen by their number from the 0 it started with.
C29_MessageCountIsExact ==
  \A u \in DOMAIN users :
    (/\ deletion = << >>
     /\ \A i \in handlersOf(u) : handlers[i].pc = "done") =>
      users[u].messageCount = Cardinality(handlersOf(u))

\* ------------------------------------------------ properties of the cleanup job
\* The number of Conversation documents of an account in a collection.
total(coll, userId) ==
  LET RECURSIVE sum(_)
      sum(S) == IF S = {} THEN 0
                ELSE LET d == CHOOSE x \in S : TRUE
                     IN  coll[d] + sum(S \ {d})
  IN  sum({ d \in DOMAIN coll : d.userId = userId })

\* The cutoff of the cleanup job.
thirtyDaysAgo == nowHours - RetentionDays * HoursPerDay

\* A step in which the loop of a cleanup run visits account u and its queries
\* are answered.
CleansAccount(i, u) ==
  /\ i \in 1..Len(runs)
  /\ runs[i].job = "cleanup"
  /\ runs[i].phase = "loop"
  /\ runs[i].users[runs[i].idx + 1] = u
  /\ runs'[i].idx = runs[i].idx + 1

removes(d) ==
  d \notin DOMAIN conversations' \/ conversations'[d] < conversations[d]

ValidStored ==
  { s \in agData : s.createdAt < nowHours /\ nowHours <= s.validUntil }

\* C19: in a finished run of the weather job, an account with weather
\* notifications on, not banned and with coordinates, for which a snapshot
\* within its validity is stored and no send was rejected, got exactly one
\* message, and the temperature in it is the one of that snapshot.
C19_SnapshotTemperatureDeliveredOnce ==
  \A i \in 1..Len(runs), u \in UserIds :
    LET r == runs[i] IN
    (/\ r.job = "weather_updates"
     /\ r.phase = "done"
     /\ r.read[u].weather
     /\ ~r.read[u].isBanned
     /\ r.read[u].coordinates
     /\ sendsOf(r, u, FALSE) = 0
     /\ ValidStored # {}) =>
      /\ sendsOf(r, u, TRUE) = 1
      /\ \E s \in ValidStored : r.temperature[u] = << s.temperature >>

====
